---- MODULE Spec2Model ----
(***************************************************************************)
(* Shopping-list price estimation and meal-plan synthesis of fitness-api   *)
(* (routes/shoppingLists.js and models/shoppingList.js).  The repository   *)
(* holds two copies of the route module: the one with the kg<->g and       *)
(* l<->ml conversion table (Spec, SpecUnits, SpecTwice) and the one the    *)
(* server registers, without conversions (the routes_ definitions and      *)
(* SpecRoutes).                                                            *)
(*                                                                         *)
(* Representation.  Money is an integer number of cents.  A price per base *)
(* unit is the exact fraction <<cents, baseQty>>; Number(x.toFixed(2)) is  *)
(* rounding of the exact product to the nearest cent, halves up (the       *)
(* source rounds the IEEE double, which differs from the exact value only  *)
(* by representation error).  Strings are TLA+ strings; trim() and         *)
(* toLowerCase() are tabulated on the strings the model uses.  Time is an  *)
(* integer; every save of a document happens at its own instant.           *)
(***************************************************************************)
EXTENDS Integers, Sequences, FiniteSets, TLC

\* ------------------------------------------------------------------ bounds
MaxLists == 3       \* lists that may exist in the store
MaxItems == 3       \* items per list
MaxPlan  == 2       \* ingredients in one meal plan
MaxHist  == 2       \* purchase-history items in a list of the initial store
MaxOps   == 1       \* requests served from an initial store of Spec
TwiceOps == 2       \* requests served from an initial store of SpecTwice
MaxRecords == 4     \* purchases of one item in an initial store of SpecMedian
RetryOps == 5       \* requests served from the initial store of SpecRetry
RaceOps == 2        \* requests in flight together in SpecRace
PricesOps == 5      \* requests served from the empty store of SpecPrices

\* ------------------------------------------------------- string primitives
Null == "<null>"

\* String.prototype.trim on the strings of the model
Trim(s) ==
  CASE s = " Rice " -> "Rice"
    [] s = "KG "    -> "KG"
    [] s = " "      -> ""
    [] s = "Liters " -> "Liters"
    [] OTHER        -> s

\* String.prototype.toLowerCase on the strings of the model
Lower(s) ==
  CASE s = "Rice"   -> "rice"
    [] s = " Rice " -> " rice "
    [] s = "KG"     -> "kg"
    [] s = "KG "    -> "kg "
    [] s = "LIDL"   -> "lidl"
    [] s = "Liters" -> "liters"
    [] s = "Liters " -> "liters "
    [] s = "Graos"  -> "graos"
    [] OTHER        -> s

\* ------------------------------------------------------------------ units
\* UNIT_MAP: the keys that are objects (g, kg, ml, l)
UnitEntries == {"g", "kg", "ml", "l"}
\* UNIT_MAP: the keys that are aliases (strings)
UnitAliases == {"gram", "grams", "milliliter", "milliliters", "liter", "liters"}

UNIT_MAP_group(k)  == IF k \in {"g", "kg"} THEN "weight" ELSE "volume"
UNIT_MAP_base(k)   == IF k \in {"g", "kg"} THEN "g" ELSE "ml"
\* a table without multipliers
UnitFactorOne(k) == 1
\* a table whose base units have no multiplier
UnitFactorLost(k) == IF k \in {"kg", "l"} THEN 1000 ELSE 0

UNIT_MAP_factor(k) == IF k \in {"kg", "l"} THEN 1000 ELSE 1
UNIT_MAP_alias(k)  ==
  CASE k \in {"gram", "grams"}             -> "g"
    [] k \in {"milliliter", "milliliters"} -> "ml"
    [] k \in {"liter", "liters"}           -> "l"

\* mapUnit(u): String(u || '').trim().toLowerCase(); an absent unit is Null
mapUnit(u) ==
  LET key == IF u = Null THEN "" ELSE Lower(Trim(u))
  IN  IF key \notin (UnitEntries \cup UnitAliases)
        THEN (IF key = "" THEN "un" ELSE key)
        ELSE IF key \in UnitAliases THEN UNIT_MAP_alias(key) ELSE key

unitInfo(u) ==
  LET canonKey == mapUnit(u)
  IN  IF canonKey \in UnitEntries
        THEN [base |-> UNIT_MAP_base(canonKey), factor |-> UNIT_MAP_factor(canonKey),
              group |-> UNIT_MAP_group(canonKey), canon |-> canonKey]
        ELSE [base |-> canonKey, factor |-> 1, group |-> "other", canon |-> canonKey]

\* a key of the name and the canonical unit, not of the unit's group
keyOfUnit(name, unit) == <<Lower(Trim(name)), mapUnit(unit)>>

\* keyOf: `${name.trim().toLowerCase()}::${group}` as the pair of its parts
keyOf(name, unit) == <<Lower(Trim(name)), unitInfo(unit).group>>

toBaseQty(qty, unit) == qty * unitInfo(unit).factor

\* autoCategory: first keyword table entry contained in the lower-cased name
autoCategory(name) ==
  LET s == Lower(name)
  IN  CASE s \in {"leite"} -> "laticinios"
        [] OTHER           -> "outros"

\* -------------------------------------------------------------- fractions
RECURSIVE GCD(_, _)
GCD(a, b) == IF b = 0 THEN a ELSE GCD(b, a % b)

Reduce(f) == LET g == GCD(f[1], f[2]) IN IF g = 0 THEN f ELSE <<f[1] \div g, f[2] \div g>>
FracAdd(f, h) == Reduce(<<f[1] * h[2] + h[1] * f[2], f[2] * h[2]>>)
FracLess(f, h) == f[1] * h[2] < h[1] * f[2]
FracDivInt(f, n) == Reduce(<<f[1], f[2] * n>>)

\* Number((up * qtyBase).toFixed(2)) in cents: nearest cent, halves up
ToFixed2(up, qtyBase) ==
  LET g == GCD(qtyBase, up[2])
      n == up[1] * (IF g = 0 THEN qtyBase ELSE qtyBase \div g)
      d == IF g = 0 THEN up[2] ELSE up[2] \div g
  IN  (2 * n + d) \div (2 * d)

\* ------------------------------------------------------------------ state
VARIABLES
  lists,   \* the shopping_lists collection: a sequence of documents, _id = index
  now,     \* the clock (Date.now())
  resp,    \* the request served last and the reply to it
  left,    \* requests still to be served
  pushes,  \* the budget alerts handed to fastify.sendPushToUser, in order
  procs    \* the requests served step by step: what each has loaded and done

vars == <<lists, now, resp, left, pushes, procs>>

Users == {"A", "B"}
NoDays == 0      \* `days` absent from the request (the store filter absent is "")
Strategies == {"last", "avg", "median"}

\* itemSchema: a new item sub-document with the schema defaults applied
NewItem(name, qty, unit, category, plannedPrice, purchasedPrice, purchased, store, t) ==
  [name |-> name, qty |-> qty, unit |-> unit, category |-> category,
   plannedPrice |-> plannedPrice, purchasedPrice |-> purchasedPrice,
   purchased |-> purchased, store |-> store, priceHistory |-> << >>, updatedAt |-> t]

\* alertsSchema defaults, fractions in percent
DefaultAlerts == [warnPct |-> 80, errorPct |-> 100, notify |-> TRUE]

NewList(user, budget, items, t) ==
  [user |-> user, budget |-> budget, alerts |-> DefaultAlerts, items |-> items, updatedAt |-> t]

\* a lookup by _id alone
FoundAny(ls, id, user) == id \in 1..Len(ls)

\* ShoppingList.findOne({ _id: id, user })
Found(ls, id, user) == id \in 1..Len(ls) /\ ls[id].user = user

\* ------------------------------------------------ aggregateUserHistory
\* date = it.updatedAt || it.createdAt || l.updatedAt (item timestamps are always set)
EffectiveDate(it, l) == IF it.updatedAt # 0 THEN it.updatedAt ELSE l.updatedAt

\* The tests before map.set(key, ...): purchased, name, price, qty, store, since
PassesFilters(it, l, store, days, t) ==
  /\ it.purchased
  /\ Trim(it.name) # "" /\ it.purchasedPrice > 0 /\ it.qty > 0
  /\ ~(store # "" /\ it.store # "" /\ Lower(it.store) # Lower(store))
  /\ ~(days # NoDays /\ EffectiveDate(it, l) < t - days)

RECURSIVE ItemsInOrderAll(_, _, _)
\* the items of every list that holds a purchased item, whoever owns it
ItemsInOrderAll(ls, userId, i) ==
  IF i > Len(ls) THEN << >>
  ELSE LET l == ls[i]
           here == IF \E k \in 1..Len(l.items) : l.items[k].purchased
                     THEN [k \in 1..Len(l.items) |-> [it |-> l.items[k], l |-> l]]
                     ELSE << >>
       IN  here \o ItemsInOrderAll(ls, userId, i + 1)

RECURSIVE ItemsInOrder(_, _, _)
\* for (const l of lists) for (const it of l.items): the items of the user's
\* lists that hold a purchased item, in iteration order, each with its list
ItemsInOrder(ls, userId, i) ==
  IF i > Len(ls) THEN << >>
  ELSE LET l == ls[i]
           here == IF l.user = userId /\ (\E k \in 1..Len(l.items) : l.items[k].purchased)
                     THEN [k \in 1..Len(l.items) |-> [it |-> l.items[k], l |-> l]]
                     ELSE << >>
       IN  here \o ItemsInOrder(ls, userId, i + 1)

HistRecord(it, l) ==
  [name |-> Trim(it.name), unit |-> unitInfo(it.unit).canon, qty |-> it.qty,
   baseQty |-> toBaseQty(it.qty, it.unit), price |-> it.purchasedPrice,
   unitPriceBase |-> <<it.purchasedPrice, toBaseQty(it.qty, it.unit)>>,
   store |-> IF it.store = "" THEN Null ELSE it.store,
   date |-> EffectiveDate(it, l),
   category |-> IF it.category = "" THEN Null ELSE it.category]

RECURSIVE SortByDateDesc(_)
\* records.sort((a, b) => b.date - a.date): stable, newest first
SortByDateDesc(rs) ==
  IF Len(rs) <= 1 THEN rs
  ELSE LET rest == SortByDateDesc(Tail(rs))
           r    == Head(rs)
           \* r stays in front of every later record that is not strictly newer
           k    == Cardinality({j \in 1..Len(rest) : rest[j].date > r.date})
       IN  SubSeq(rest, 1, k) \o <<r>> \o SubSeq(rest, k + 1, Len(rest))

RECURSIVE CategoryMode(_, _, _)
\* the first-seen category with the greatest count (cnt > bestCnt), else null
CategoryMode(rs, i, best) ==
  IF i > Len(rs) THEN best
  ELSE LET c == IF rs[i].category = Null THEN Null ELSE Lower(rs[i].category)
           count(x) == Cardinality({j \in 1..Len(rs) :
                          rs[j].category # Null /\ Lower(rs[j].category) = x})
           firstSeen == c # Null /\ \A j \in 1..(i - 1) :
                          rs[j].category = Null \/ Lower(rs[j].category) # c
       IN  IF firstSeen /\ (best = Null \/ count(c) > count(best))
             THEN CategoryMode(rs, i + 1, c)
             ELSE CategoryMode(rs, i + 1, best)

\* The Map returned: a function from the keys set to {records, categoryMode}
aggregateUserHistory(ls, userId, store, days, t) ==
  LET all    == ItemsInOrder(ls, userId, 1)
      Pass(p) == PassesFilters(p.it, p.l, store, days, t)
      passed == SelectSeq(all, Pass)
      keys   == {keyOf(passed[i].it.name, passed[i].it.unit) : i \in 1..Len(passed)}
      recsOf(key) ==
        LET Mine(p) == keyOf(p.it.name, p.it.unit) = key /\ toBaseQty(p.it.qty, p.it.unit) > 0
            mine == SelectSeq(passed, Mine)
        IN  [i \in 1..Len(mine) |-> HistRecord(mine[i].it, mine[i].l)]
  IN  [key \in keys |->
        [records |-> SortByDateDesc(recsOf(key)),
         categoryMode |-> CategoryMode(recsOf(key), 1, Null)]]

\* ------------------------------------------------------------ suggestPrice
RECURSIVE SortAsc(_)
\* arr.sort((a, b) => a - b) on fractions
SortAsc(fs) ==
  IF Len(fs) <= 1 THEN fs
  ELSE LET rest == SortAsc(Tail(fs))
           f    == Head(fs)
           k    == Cardinality({j \in 1..Len(rest) : FracLess(rest[j], f)})
       IN  SubSeq(rest, 1, k) \o <<f>> \o SubSeq(rest, k + 1, Len(rest))

RECURSIVE FracSum(_)
FracSum(fs) == IF fs = << >> THEN <<0, 1>> ELSE FracAdd(Head(fs), FracSum(Tail(fs)))

\* the median of an even count taken as the upper middle value
pickUnitPriceUpper(valid, strategy) ==
  LET ups == [i \in 1..Len(valid) |-> valid[i].unitPriceBase]
  IN  IF strategy = "last" THEN ups[1]
      ELSE IF strategy = "avg" THEN FracDivInt(FracSum(ups), Len(ups))
      ELSE SortAsc(ups)[(Len(ups) \div 2) + 1]

pickUnitPrice(valid, strategy) ==
  LET ups == [i \in 1..Len(valid) |-> valid[i].unitPriceBase]
  IN  IF strategy = "last" THEN ups[1]
      ELSE IF strategy = "avg" THEN FracDivInt(FracSum(ups), Len(ups))
      ELSE LET arr == SortAsc(ups)
               mid == Len(arr) \div 2          \* 0-based index
           IN  IF Len(arr) % 2 = 1 THEN arr[mid + 1]
               ELSE FracDivInt(FracAdd(arr[mid], arr[mid + 1]), 2)

\* the quantity wanted left out: the price of one unit
QtyBaseOne(qtyWanted, unitWanted) == toBaseQty(1, unitWanted)

\* the quantity wanted taken as it is, 0 included
QtyBaseAsGiven(qtyWanted, unitWanted) == toBaseQty(qtyWanted, unitWanted)

\* The quantity priced: toBaseQty(qtyWanted || 1, unitWanted)
QtyBaseWanted(qtyWanted, unitWanted) ==
  toBaseQty(IF qtyWanted = 0 THEN 1 ELSE qtyWanted, unitWanted)

suggestPrice(records, qtyWanted, unitWanted, strategy) ==
  IF records = << >> THEN 0
  ELSE LET qtyBase == QtyBaseWanted(qtyWanted, unitWanted)
           Valid(r) == r.unitPriceBase[2] # 0 /\ r.unitPriceBase[1] > 0 /\ r.unitPriceBase[2] > 0
           valid == SelectSeq(records, Valid)
       IN  IF valid = << >>
             THEN LET last == records[1]
                  IN  IF last.baseQty <= 0 THEN 0
                      ELSE ToFixed2(<<last.price, last.baseQty>>, qtyBase)
             ELSE ToFixed2(pickUnitPrice(valid, strategy), qtyBase)

\* ------------------------------------------------------- request inputs
ListIds == 1..MaxLists
ItemIds == 1..MaxItems
Budgets == {0, 10000}
PlanBudgets == {5000}
\* the `store` and `days` of a request: neither, a store, a window of days
Filters == {[store |-> "", days |-> NoDays], [store |-> "LIDL", days |-> NoDays],
            [store |-> "", days |-> 2]}

\* bodies accepted by itemCreateZ (name required, the rest optional)
AddPayloads ==
  { [name |-> "rice", qty |-> 2, unit |-> "KG "],
    [name |-> " Rice "],
    [name |-> "rice", qty |-> 1, unit |-> "g", category |-> ""],
    [name |-> "rice", qty |-> 3, unit |-> "piece", plannedPrice |-> 500],
    [name |-> "leite", qty |-> 0, unit |-> "l", store |-> "lidl"] }

\* bodies accepted by itemPatchZ (every field optional)
Patches ==
  { [purchased |-> TRUE, purchasedPrice |-> 300],
    [purchased |-> TRUE, purchasedPrice |-> 160, store |-> "lidl"],
    [purchased |-> FALSE],
    [plannedPrice |-> 500],
    [plannedPrice |-> 0],
    [qty |-> 0],
    [unit |-> ""],
    [unit |-> "KG "],
    [name |-> "leite"],
    [category |-> ""] }

\* plan.items entries accepted by mealPlanReqZ (unit optional: Null when absent)
PlanItems ==
  { [name |-> " Rice ", qty |-> 2, unit |-> "KG "],
    [name |-> "rice", qty |-> 0, unit |-> "g"],
    [name |-> "leite", qty |-> 1, unit |-> Null] }

\* plans of distinct entries, up to the order of the entries
Plans == {p \in UNION {[1..n -> PlanItems] : n \in 1..MaxPlan} :
            \A i, j \in DOMAIN p : i < j => p[i].qty > p[j].qty}

\* ----------------------------------------------------------------- save
\* list.save(): the pre('save') hook stamps the list; the item timestamps
\* plugin stamps every item that is new or modified
SaveList(l, newItems, t) ==
  [l EXCEPT !.updatedAt = t,
            !.items = [k \in 1..Len(newItems) |->
                         IF k <= Len(l.items) /\ newItems[k] = l.items[k]
                           THEN l.items[k]
                           ELSE [newItems[k] EXCEPT !.updatedAt = t]]]

Reply(op, code, id, body) == [op |-> op, code |-> code, id |-> id, body |-> body, req |-> << >>]
ReplyTo(req, op, code, id, body) == [op |-> op, code |-> code, id |-> id, body |-> body, req |-> req]
NoBody == << >>

\* ------------------------------------------------- POST /shopping-lists
CreateList(u, budget) ==
  /\ left > 0
  /\ Len(lists) < MaxLists
  /\ lists' = Append(lists, NewList(u, budget, << >>, now))
  /\ resp' = Reply("create", 201, Len(lists) + 1, NoBody)
  /\ now' = now + 1
  /\ left' = left - 1
  /\ UNCHANGED <<pushes, procs>>

\* ---------------------------------------- POST /shopping-lists/:id/items
Has(r, f) == f \in DOMAIN r

AddedItem(payload, t) ==
  NewItem(payload.name,
          IF Has(payload, "qty") THEN payload.qty ELSE 1,
          mapUnit(IF Has(payload, "unit") THEN payload.unit ELSE Null),
          IF Has(payload, "category") /\ payload.category # ""
            THEN payload.category ELSE autoCategory(payload.name),
          IF Has(payload, "plannedPrice") THEN payload.plannedPrice ELSE 0,
          0, FALSE,
          IF Has(payload, "store") THEN payload.store ELSE "",
          t)

AddItem(u, id, payload) ==
  /\ left > 0
  /\ left' = left - 1
  /\ UNCHANGED <<pushes, procs>>
  /\ IF ~Found(lists, id, u)
       THEN /\ resp' = Reply("addItem", 404, id, NoBody)
            /\ UNCHANGED <<lists, now>>
       ELSE /\ Len(lists[id].items) < MaxItems
            /\ lists' = [lists EXCEPT ![id] =
                           SaveList(@, Append(@.items, AddedItem(payload, now)), now)]
            /\ resp' = Reply("addItem", 201, id, NoBody)
            /\ now' = now + 1

\* ------------------------------- PATCH /shopping-lists/:id/items/:itemId
PatchedItem(item, patch) ==
  LET assigned == [f \in DOMAIN item |-> IF Has(patch, f) THEN patch[f] ELSE item[f]]
      withCat  == IF Has(patch, "name") /\ ~(Has(patch, "category") /\ patch.category # "")
                    THEN [assigned EXCEPT !.category = autoCategory(patch.name)]
                    ELSE assigned
  IN  IF Has(patch, "unit") /\ patch.unit # ""
        THEN [withCat EXCEPT !.unit = mapUnit(patch.unit)]
        ELSE withCat

PatchItem(u, id, itemId, patch) ==
  /\ left > 0
  /\ left' = left - 1
  /\ UNCHANGED <<pushes, procs>>
  /\ IF ~Found(lists, id, u) \/ itemId > Len(lists[id].items)
       THEN /\ resp' = Reply("patchItem", 404, id, NoBody)
            /\ UNCHANGED <<lists, now>>
       ELSE /\ lists' = [lists EXCEPT ![id] =
                           SaveList(@, [@.items EXCEPT ![itemId] = PatchedItem(@, patch)], now)]
            /\ resp' = Reply("patchItem", 200, id, NoBody)
            /\ now' = now + 1

\* ------------------------------------- GET /shopping-lists/:id/summary
RECURSIVE SumField(_, _)
\* sum(items, field)
SumField(items, field) ==
  IF items = << >> THEN 0 ELSE Head(items)[field] + SumField(Tail(items), field)

IsPurchased(it) == it.purchased

\* thresholds that have to be exceeded
BudgetStatusStrict(l, spent) ==
  IF l.budget > 0 /\ spent * 100 > l.alerts.errorPct * l.budget THEN "over"
  ELSE IF l.budget > 0 /\ spent * 100 > l.alerts.warnPct * l.budget THEN "warn"
  ELSE "ok"

BudgetStatus(l, spent) ==
  IF l.budget > 0 /\ spent * 100 >= l.alerts.errorPct * l.budget THEN "over"
  ELSE IF l.budget > 0 /\ spent * 100 >= l.alerts.warnPct * l.budget THEN "warn"
  ELSE "ok"

SummaryBody(l) ==
  LET planned == SumField(l.items, "plannedPrice")
      spent   == SumField(SelectSeq(l.items, IsPurchased), "purchasedPrice")
  IN  [planned |-> planned, spent |-> spent, budget |-> l.budget,
       remaining |-> IF l.budget - spent > 0 THEN l.budget - spent ELSE 0,
       status |-> BudgetStatus(l, spent)]

\* The handler is declared `async (request) =>`: it has no reply parameter, and
\* `request.reply` is no property of the request, so `request.reply.notFound(..)`
\* throws a TypeError, which the framework answers with 500.
SummaryMissingCode == 500

\* sendOverspendAlert up to its await: nothing is sent when notify is off,
\* otherwise a push to the owner is in flight
Dispatched(ps, l, id, status) ==
  IF l.alerts.notify
    THEN Append(ps, [user |-> l.user, list |-> id, status |-> status, outcome |-> "pending"])
    ELSE ps

\* the call is not awaited: the handler returns while the push is in flight
Summary(u, id) ==
  /\ left > 0
  /\ left' = left - 1
  /\ UNCHANGED <<lists, now, procs>>
  /\ IF ~Found(lists, id, u)
       THEN /\ resp' = ReplyTo([user |-> u], "summary", SummaryMissingCode, id, NoBody)
            /\ UNCHANGED pushes
       ELSE /\ resp' = ReplyTo([user |-> u], "summary", 200, id, SummaryBody(lists[id]))
            /\ pushes' = IF SummaryBody(lists[id]).status \in {"warn", "over"}
                           THEN Dispatched(pushes, lists[id], id, SummaryBody(lists[id]).status)
                           ELSE pushes

\* the outcomes of fastify.sendPushToUser: delivered, declined, or an exception
PushOutcomes == {"sent", "skipped", "throws"}

\* an exception of the push reaches the caller's response
AfterDeliveryRaised(r, outcome) == IF outcome = "throws" THEN [r EXCEPT !.code = 500] ELSE r

\* what the settled alert does to the response: its value is dropped, an
\* exception is caught and logged inside sendOverspendAlert, and the promise
\* carries .catch(() => {})
AfterDelivery(r, outcome) == r

\* the continuation of sendOverspendAlert after its await
Deliver(i, outcome) ==
  /\ i \in DOMAIN pushes
  /\ pushes[i].outcome = "pending"
  /\ pushes' = [pushes EXCEPT ![i].outcome = IF outcome = "throws" THEN "notify-failed" ELSE outcome]
  /\ resp' = AfterDelivery(resp, outcome)
  /\ UNCHANGED <<lists, now, left, procs>>

\* ------------------------- POST /shopping-lists/:id/estimate-prices
\* a turn of the loop without the onlyMissing test
EstimatedItemAll(it, hist, strategy, onlyMissing) ==
  LET key == keyOf(it.name, it.unit)
  IN  IF key \notin DOMAIN hist \/ hist[key].records = << >> THEN it
      ELSE LET h == hist[key]
               qtyWanted == IF it.qty = 0 THEN 1 ELSE it.qty
           IN  [it EXCEPT !.plannedPrice = suggestPrice(h.records, qtyWanted, it.unit, strategy),
                          !.category = IF @ = "" /\ h.categoryMode # Null
                                         THEN h.categoryMode ELSE @]

\* a turn of the loop that overwrites the category it finds
EstimatedItemRecat(it, hist, strategy, onlyMissing) ==
  IF onlyMissing /\ it.plannedPrice > 0 THEN it
  ELSE LET key == keyOf(it.name, it.unit)
       IN  IF key \notin DOMAIN hist \/ hist[key].records = << >> THEN it
           ELSE LET h == hist[key]
                    qtyWanted == IF it.qty = 0 THEN 1 ELSE it.qty
                IN  [it EXCEPT !.plannedPrice = suggestPrice(h.records, qtyWanted, it.unit, strategy),
                               !.category = IF h.categoryMode # Null THEN h.categoryMode ELSE @]

\* one turn of the loop over list.items
EstimatedItem(it, hist, strategy, onlyMissing) ==
  IF onlyMissing /\ it.plannedPrice > 0 THEN it
  ELSE LET key == keyOf(it.name, it.unit)
       IN  IF key \notin DOMAIN hist \/ hist[key].records = << >> THEN it
           ELSE LET h == hist[key]
                    qtyWanted == IF it.qty = 0 THEN 1 ELSE it.qty
                IN  [it EXCEPT !.plannedPrice = suggestPrice(h.records, qtyWanted, it.unit, strategy),
                               !.category = IF @ = "" /\ h.categoryMode # Null
                                              THEN h.categoryMode ELSE @]

\* the list as saved by the handler
Backfilled(ls, id, u, strategy, store, days, onlyMissing, t) ==
  LET hist == aggregateUserHistory(ls, u, store, days, t)
      l    == ls[id]
  IN  SaveList(l, [k \in 1..Len(l.items) |->
                     EstimatedItem(l.items[k], hist, strategy, onlyMissing)], t)

EstimateReq(u, strategy, store, days, onlyMissing) ==
  [user |-> u, strategy |-> strategy, store |-> store, days |-> days, onlyMissing |-> onlyMissing]

EstimatePrices(u, id, strategy, store, days, onlyMissing) ==
  /\ left > 0
  /\ left' = left - 1
  /\ UNCHANGED <<pushes, procs>>
  /\ IF ~Found(lists, id, u)
       THEN /\ resp' = ReplyTo([user |-> u], "estimate", 404, id, NoBody)
            /\ UNCHANGED <<lists, now>>
       ELSE /\ lists' = [lists EXCEPT ![id] =
                           Backfilled(lists, id, u, strategy, store, days, onlyMissing, now)]
            /\ resp' = ReplyTo(EstimateReq(u, strategy, store, days, onlyMissing),
                               "estimate", 200, id, NoBody)
            /\ now' = now + 1

\* ----------------------------- POST /shopping-lists/from-mealplan
HasHistory(hist, key) == key \in DOMAIN hist /\ hist[key].records # << >>

\* an entry with history inserted as bought at its estimate
PlannedItemBought(inItem, hist, strategy, store, t) ==
  LET nm   == Trim(inItem.name)
      unit == mapUnit(inItem.unit)
      key  == keyOf(nm, unit)
  IN  IF ~HasHistory(hist, key)
        THEN NewItem(nm, inItem.qty, unit, autoCategory(nm), 0, 0, FALSE, "", t)
        ELSE LET price == suggestPrice(hist[key].records, inItem.qty, unit, strategy)
             IN  NewItem(nm, inItem.qty, unit, autoCategory(nm), price, price, TRUE, store, t)

\* the item pushed to itemsToInsert for one plan entry (known or allowed unknown)
PlannedItem(inItem, hist, strategy, store, t) ==
  LET nm   == Trim(inItem.name)
      unit == mapUnit(inItem.unit)
      key  == keyOf(nm, unit)
  IN  IF ~HasHistory(hist, key)
        THEN NewItem(nm, inItem.qty, unit, autoCategory(nm), 0, 0, FALSE, "", t)
        ELSE LET h == hist[key]
             IN  NewItem(nm, inItem.qty, unit,
                         IF h.categoryMode # Null THEN h.categoryMode ELSE autoCategory(nm),
                         suggestPrice(h.records, inItem.qty, unit, strategy),
                         0, FALSE, store, t)

UnknownEntry(inItem) ==
  [name |-> Trim(inItem.name), unit |-> mapUnit(inItem.unit), qty |-> inItem.qty]

\* only the first entry without history is reported
UnknownOfFirst(plan, hist, allowUnknown) ==
  LET Missing(inItem) ==
        ~allowUnknown /\ ~HasHistory(hist, keyOf(Trim(inItem.name), mapUnit(inItem.unit)))
      missing == SelectSeq(plan, Missing)
  IN  IF missing = << >> THEN << >> ELSE <<UnknownEntry(missing[1])>>

\* the `unknown` array: the entries without history, when they are not allowed
UnknownOf(plan, hist, allowUnknown) ==
  LET Missing(inItem) ==
        ~allowUnknown /\ ~HasHistory(hist, keyOf(Trim(inItem.name), mapUnit(inItem.unit)))
      missing == SelectSeq(plan, Missing)
  IN  [i \in 1..Len(missing) |-> UnknownEntry(missing[i])]

\* itemsToInsert: every entry that was not pushed to `unknown`
ItemsToInsert(plan, hist, allowUnknown, strategy, store, t) ==
  LET Kept(inItem) ==
        allowUnknown \/ HasHistory(hist, keyOf(Trim(inItem.name), mapUnit(inItem.unit)))
      kept == SelectSeq(plan, Kept)
  IN  [i \in 1..Len(kept) |-> PlannedItem(kept[i], hist, strategy, store, t)]

\* ShoppingList.create validates the items: `name` is required, and the
\* required validator of a String path refuses the empty string; the
\* ValidationError is answered with 500
ValidationFails(items) == \E k \in DOMAIN items : items[k].name = ""

MealPlanReq(u, allowUnknown, strategy, store, days, plan) ==
  [user |-> u, allowUnknown |-> allowUnknown, strategy |-> strategy, store |-> store,
   days |-> days, plan |-> plan]

FromMealPlan(u, budget, allowUnknown, strategy, store, days, plan) ==
  /\ left > 0
  /\ left' = left - 1
  /\ UNCHANGED <<pushes, procs>>
  /\ LET hist    == aggregateUserHistory(lists, u, store, days, now)
         unknown == UnknownOf(plan, hist, allowUnknown)
     IN  IF unknown # << >>
           THEN /\ resp' = ReplyTo(MealPlanReq(u, allowUnknown, strategy, store, days, plan),
                                   "mealplan", 400, 0, unknown)
                /\ UNCHANGED <<lists, now>>
           ELSE IF ValidationFails(ItemsToInsert(plan, hist, allowUnknown, strategy, store, now))
           THEN /\ resp' = ReplyTo(MealPlanReq(u, allowUnknown, strategy, store, days, plan),
                                   "mealplan", 500, 0, NoBody)
                /\ UNCHANGED <<lists, now>>
           ELSE /\ Len(lists) < MaxLists
                /\ lists' = Append(lists,
                     NewList(u, budget,
                             ItemsToInsert(plan, hist, allowUnknown, strategy, store, now), now))
                /\ resp' = ReplyTo(MealPlanReq(u, allowUnknown, strategy, store, days, plan),
                                   "mealplan", 201, Len(lists) + 1, NoBody)
                /\ now' = now + 1

\* ------------------------------------------------------------------ next
Next ==
  \/ \E u \in Users, b \in Budgets : CreateList(u, b)
  \/ \E u \in Users, id \in ListIds, p \in AddPayloads : AddItem(u, id, p)
  \/ \E u \in Users, id \in ListIds, k \in ItemIds, p \in Patches : PatchItem(u, id, k, p)
  \/ \E u \in Users, id \in ListIds : Summary(u, id)
  \/ \E u \in Users, id \in ListIds, st \in Strategies, f \in Filters, om \in BOOLEAN :
        EstimatePrices(u, id, st, f.store, f.days, om)
  \/ \E u \in Users, b \in PlanBudgets, au \in BOOLEAN, st \in Strategies, f \in Filters,
        plan \in Plans : FromMealPlan(u, b, au, st, f.store, f.days, plan)

\* the requests, and the alerts in flight settling between them
NextAlerts ==
  \/ Next
  \/ \E i \in 1..MaxOps, o \in PushOutcomes : Deliver(i, o)

\* ------------------------------------------------------------------ init
\* The store the requests start from: a list of user A and a list of user B,
\* built by earlier create, add and patch requests (every field value below is
\* one those requests can set).  A's list holds history items, then wanted items.
HistoryItems ==
  { \* purchases (evidence)
    NewItem("rice",   1,   "kg", "graos",  0,   300, TRUE,  "lidl", 0),
    NewItem(" Rice ", 500, "g",  "Graos",  250, 160, TRUE,  "",     0),
    NewItem("rice",   1,   "kg", "",       0,   600, TRUE,  "aldi", 0),
    NewItem("rice",   2,   "un", "outros", 0,   400, TRUE,  "lidl", 0),
    \* not evidence: not purchased, no quantity, no price
    NewItem("rice",   1,   "kg", "outros", 0,   900, FALSE, "",     0),
    NewItem("rice",   0,   "kg", "outros", 0,   300, TRUE,  "",     0),
    NewItem("rice",   1,   "kg", "outros", 0,   0,   TRUE,  "",     0) }

WantedItems ==
  { NewItem("rice",   2,   "kg", "",       0,   0,   FALSE, "",     0),
    NewItem("rice",   1,   "g",  "outros", 0,   0,   FALSE, "",     0),
    NewItem("rice",   2,   "kg", "outros", 500, 0,   FALSE, "",     0),
    NewItem("rice",   0,   "un", "outros", 0,   0,   FALSE, "",     0),
    NewItem("leite",  1,   "l",  "laticinios", 0, 0, FALSE, "",     0) }

\* the one purchase of user B: rice at a price A never paid
ItemsOfB == << NewItem("rice", 1, "kg", "outros", 0, 900, TRUE, "lidl", 2) >>

HistorySeqs == UNION {[1..n -> HistoryItems] : n \in 0..MaxHist}
WantedSeqs == {<< >>} \cup {<<w>> : w \in WantedItems}

\* the instants of the saves that last touched the items, oldest or newest first
SeedDate(k, n, newestFirst) == IF newestFirst THEN 2 * (n - k) + 1 ELSE 2 * k - 1

Dated(items, newestFirst) ==
  [k \in 1..Len(items) |->
     [items[k] EXCEPT !.updatedAt = SeedDate(k, Len(items), newestFirst)]]

SeedStore(h, w, newestFirst) ==
  << NewList("A", 10000, Dated(h \o w, newestFirst), 2 * (MaxHist + 1)),
     NewList("B", 0, ItemsOfB, 2) >>

InitStore ==
  \E h \in HistorySeqs, w \in WantedSeqs, nf \in BOOLEAN :
    /\ (Len(h) + Len(w) <= 1 => nf)
    /\ lists = SeedStore(h, w, nf)
    /\ now = 2 * (MaxHist + 1) + 1
    /\ resp = Reply("none", 0, 0, NoBody)
    /\ pushes = << >>
    /\ procs = << >>

Init == InitStore /\ left = MaxOps

Spec == Init /\ [][Next]_vars

\* SpecUnits: initial stores whose purchases range over the units, for the
\* properties of the unit groups.  A bought "rice" once or twice, in any units.
UnitPurchase(name, unit) ==
  NewItem(name, 2, unit, "outros", 0,
          CASE unit \in {"g", "ml"} -> 1 [] unit \in {"kg", "l"} -> 700 [] OTHER -> 300,
          TRUE, "", 0)

PurchaseUnits == {"g", "kg", "ml", "l", "un", "piece"}

UnitWanted ==
  { NewItem("rice", 3, "kg", "outros", 0, 0, FALSE, "", 0),
    NewItem("rice", 3, "ml", "outros", 0, 0, FALSE, "", 0),
    NewItem("rice", 3, "piece", "outros", 0, 0, FALSE, "", 0) }

UnitHistorySeqs ==
  {<< >>} \cup {<<UnitPurchase("rice", u)>> : u \in PurchaseUnits}
          \cup {<<UnitPurchase("rice", u), UnitPurchase(" Rice ", v)>> :
                  u \in PurchaseUnits, v \in PurchaseUnits}

InitUnits ==
  /\ \E h \in UnitHistorySeqs, w \in {<< >>} \cup {<<x>> : x \in UnitWanted} :
       lists = SeedStore(h, w, FALSE)
  /\ now = 2 * (MaxHist + 1) + 1
  /\ resp = Reply("none", 0, 0, NoBody)
  /\ pushes = << >>
  /\ procs = << >>
  /\ left = MaxOps

SpecUnits == InitUnits /\ [][Next]_vars

\* SpecTwice: two requests in a row, from a store where A bought rice twice
\* and wants one gram of it.
TwiceHistorySeqs ==
  { << NewItem("rice",   1,   "kg", "",      0,   600, TRUE, "aldi", 0),
       NewItem(" Rice ", 500, "g",  "Graos", 250, 160, TRUE, "",     0) >>,
    << NewItem("rice",   1,   "kg", "graos", 0,   300, TRUE, "lidl", 0),
       NewItem(" Rice ", 500, "g",  "Graos", 250, 160, TRUE, "",     0) >> }

TwiceWanted == << NewItem("rice", 1, "g", "outros", 0, 0, FALSE, "", 0) >>

InitTwice ==
  /\ \E h \in TwiceHistorySeqs : lists = SeedStore(h, TwiceWanted, FALSE)
  /\ now = 2 * (MaxHist + 1) + 1
  /\ resp = Reply("none", 0, 0, NoBody)
  /\ pushes = << >>
  /\ procs = << >>
  /\ left = TwiceOps

SpecTwice == InitTwice /\ [][Next]_vars

\* SpecMedian: A bought a gram of rice one to four times, at 1.00, 2.00, 3.00
\* or 4.00, in any order, over two lists, and may want three grams more.
MedianPrices == {100, 200, 300, 400}

MedianSeqs ==
  {ps \in UNION {[1..n -> MedianPrices] : n \in 1..MaxRecords} :
     \A i, j \in DOMAIN ps : i # j => ps[i] # ps[j]}

MedianPurchases(ps) ==
  [k \in DOMAIN ps |-> NewItem("rice", 1, "g", "graos", 0, ps[k], TRUE, "", 0)]

MedianWanted == << NewItem("rice", 3, "g", "graos", 0, 0, FALSE, "", 0) >>

\* the items over two lists of A, the first one filled first
MedianStore(items) ==
  LET n == IF Len(items) < MaxItems THEN Len(items) ELSE MaxItems
  IN  << NewList("A", 10000, SubSeq(items, 1, n), 2 * (MaxRecords + 1)),
         NewList("A", 0, SubSeq(items, n + 1, Len(items)), 2 * (MaxRecords + 1)) >>

InitMedian ==
  /\ \E ps \in MedianSeqs, w \in {<< >>, MedianWanted} :
       /\ Len(ps) + Len(w) <= 2 * MaxItems
       /\ lists = MedianStore(Dated(MedianPurchases(ps) \o w, FALSE))
  /\ now = 2 * (MaxRecords + 1) + 1
  /\ resp = Reply("none", 0, 0, NoBody)
  /\ pushes = << >>
  /\ procs = << >>
  /\ left = MaxOps

SpecMedian == InitMedian /\ [][Next]_vars

\* SpecBudget: one list of A, with or without a budget of 100.00, holding up
\* to MaxItems items with a purchasedPrice, purchased or not.
BudgetPrices == {1500, 3500, 5000, 6500}

BudgetAlerts ==
  {DefaultAlerts, [warnPct |-> 90, errorPct |-> 50, notify |-> TRUE],
   [warnPct |-> 80, errorPct |-> 100, notify |-> FALSE]}

BudgetSeqs ==
  {ps \in UNION {[1..n -> BudgetPrices \X BOOLEAN] : n \in 1..MaxItems} :
     \A i, j \in DOMAIN ps : i < j => ps[i][1] < ps[j][1]}

BudgetItems(ps) ==
  [k \in DOMAIN ps |-> NewItem("rice", 1, "kg", "graos", 0, ps[k][1], ps[k][2], "", 0)]

InitBudget ==
  /\ \E ps \in BudgetSeqs, b \in Budgets, al \in BudgetAlerts :
       lists = << [NewList("A", b, Dated(BudgetItems(ps), FALSE), 2 * MaxItems)
                     EXCEPT !.alerts = al] >>
  /\ now = 2 * MaxItems + 1
  /\ resp = Reply("none", 0, 0, NoBody)
  /\ pushes = << >>
  /\ procs = << >>
  /\ left = MaxOps

SpecBudget == InitBudget /\ [][NextAlerts]_vars

\* SpecSynth: the stores of SpecMedian with at most two purchases, and plans
\* in both orders that may hold an ingredient whose name is one space and
\* ingredients in units without a conversion.
SynthPlanItems ==
  { [name |-> " Rice ", qty |-> 2, unit |-> "KG "],
    [name |-> "leite", qty |-> 1, unit |-> Null],
    [name |-> "rice", qty |-> 3, unit |-> "slice"],
    [name |-> " ", qty |-> 1, unit |-> Null] }

SynthPlans ==
  {p \in UNION {[1..n -> SynthPlanItems] : n \in 1..MaxPlan} :
     \A i, j \in DOMAIN p : i # j => p[i] # p[j]}

InitSynth ==
  /\ \E ps \in MedianSeqs, w \in {<< >>, MedianWanted} :
       /\ Len(ps) <= 2
       /\ lists = MedianStore(Dated(MedianPurchases(ps) \o w, FALSE))
  /\ now = 2 * (MaxRecords + 1) + 1
  /\ resp = Reply("none", 0, 0, NoBody)
  /\ pushes = << >>
  /\ procs = << >>
  /\ left = MaxOps

NextSynth ==
  \/ \E u \in Users, b \in Budgets : CreateList(u, b)
  \/ \E u \in Users, id \in ListIds, p \in AddPayloads : AddItem(u, id, p)
  \/ \E u \in Users, id \in ListIds, k \in ItemIds, p \in Patches : PatchItem(u, id, k, p)
  \/ \E u \in Users, id \in ListIds : Summary(u, id)
  \/ \E u \in Users, id \in ListIds, st \in Strategies, f \in Filters, om \in BOOLEAN :
        EstimatePrices(u, id, st, f.store, f.days, om)
  \/ \E u \in Users, b \in PlanBudgets, au \in BOOLEAN, st \in Strategies, f \in Filters,
        plan \in SynthPlans : FromMealPlan(u, b, au, st, f.store, f.days, plan)

SpecSynth == InitSynth /\ [][NextSynth]_vars

\* SpecRetry: A has bought nothing yet; A asks for lists from plans without
\* allowUnknown and marks items of the first list as purchased, in any order.
RetryItems ==
  << NewItem("rice", 1, "g", "graos", 0, 0, FALSE, "", 0),
     NewItem("leite", 1, "l", "laticinios", 0, 0, FALSE, "", 0),
     NewItem(" ", 1, "un", "outros", 0, 0, FALSE, "", 0) >>

RetryPlanItems ==
  { [name |-> " Rice ", qty |-> 2, unit |-> "KG "],
    [name |-> "leite", qty |-> 1, unit |-> "ml"],
    [name |-> " ", qty |-> 1, unit |-> Null] }

RetryPlans ==
  {p \in UNION {[1..n -> RetryPlanItems] : n \in 1..MaxPlan} :
     \A i, j \in DOMAIN p : i # j => p[i] # p[j]}

RetryPurchase == [purchased |-> TRUE, purchasedPrice |-> 300]

InitRetry ==
  /\ lists = << NewList("A", 0, Dated(RetryItems, FALSE), 2 * MaxItems) >>
  /\ now = 2 * MaxItems + 1
  /\ resp = Reply("none", 0, 0, NoBody)
  /\ pushes = << >>
  /\ procs = << >>
  /\ left = RetryOps

NextRetry ==
  \/ \E k \in ItemIds : PatchItem("A", 1, k, RetryPurchase)
  \/ \E plan \in RetryPlans : FromMealPlan("A", 0, FALSE, "median", "", NoDays, plan)

SpecRetry == InitRetry /\ [][NextRetry]_vars

\* SpecConvert: one list of A with one or two purchases of two units of rice,
\* in convertible units, in units without conversion and under unit names as
\* the handlers store them, and at most one item still wanted; A adds items,
\* backfills and synthesises in those units.
RawUnits == {"g", "kg", "ml", "l", "slice", "cup", "kilogram", "un", "pinch"}

ConvertPrice(unit) ==
  CASE unit = "g"  -> 4    [] unit = "kg" -> 3000 [] unit = "kilogram" -> 3000
    [] unit = "ml" -> 2    [] unit = "l"  -> 1000
    [] unit = "slice" -> 600 [] unit = "cup" -> 200
    [] unit = "un" -> 400  [] OTHER -> 100

\* payload.unit = mapUnit(payload.unit) on add, then the purchase by PATCH
ConvertPurchase(raw) ==
  NewItem("rice", 2, mapUnit(raw), "graos", 0, ConvertPrice(raw), TRUE, "", 0)

ConvertWanted ==
  { NewItem("rice", 3, "kg", "graos", 0, 0, FALSE, "", 0),
    NewItem("rice", 3, "slice", "graos", 0, 0, FALSE, "", 0),
    NewItem("rice", 0, "l", "graos", 0, 0, FALSE, "", 0) }

ConvertSeqs ==
  {<<ConvertPurchase(u)>> : u \in RawUnits}
    \cup {<<ConvertPurchase(u), ConvertPurchase(v)>> : u \in RawUnits, v \in RawUnits}

ConvertPayloads ==
  { [name |-> "rice", qty |-> 3, unit |-> "kilograms"],
    [name |-> "rice", qty |-> 3, unit |-> "Liters "],
    [name |-> "rice", qty |-> 3, unit |-> "cup"] }

ConvertPlans ==
  { << [name |-> "rice", qty |-> q, unit |-> u] >> :
      q \in {0, 3}, u \in {"kg", "grams", "kilogram", "milliliters", "slice"} }

InitConvert ==
  /\ \E h \in ConvertSeqs, w \in {<< >>} \cup {<<x>> : x \in ConvertWanted} :
       lists = << NewList("A", 0, Dated(h \o w, FALSE), 2 * MaxItems) >>
  /\ now = 2 * MaxItems + 1
  /\ resp = Reply("none", 0, 0, NoBody)
  /\ pushes = << >>
  /\ procs = << >>
  /\ left = MaxOps

NextConvert ==
  \/ \E p \in ConvertPayloads : AddItem("A", 1, p)
  \/ \E st \in Strategies, om \in BOOLEAN : EstimatePrices("A", 1, st, "", NoDays, om)
  \/ \E au \in BOOLEAN, plan \in ConvertPlans :
        FromMealPlan("A", 0, au, "median", "", NoDays, plan)

SpecConvert == InitConvert /\ [][NextConvert]_vars

\* ----------------------------------------------------------------------------
\* The backfill and the item patch, await by await. Between two awaits of one
\* request the awaits of another may run. A document loaded by findOne is a
\* copy; save() sends the paths modified on that copy ($set of the changed
\* fields of the changed items, the stamps of the timestamps plugin and of the
\* pre('save') hook) in one update of the one document. (No item is added or
\* removed by these two handlers, so positions and the version key stay.)
Proc(op, u, id, itemId, patch, strategy, onlyMissing, l) ==
  [op |-> op, user |-> u, id |-> id, item |-> itemId, patch |-> patch,
   strategy |-> strategy, onlyMissing |-> onlyMissing,
   pc |-> "found", loaded |-> l, doc |-> l, writes |-> 0]

NoPatch == [none |-> TRUE]

\* a save that sends the first modified item only
SaveFirstModified(stored, loaded, newItems, t) ==
  LET Changed(k) == {f \in DOMAIN newItems[k] \ {"updatedAt"} : newItems[k][f] # loaded.items[k][f]}
      first == {k \in 1..Len(newItems) :
                  Changed(k) # {} /\ \A j \in 1..(k - 1) : Changed(j) = {}}
  IN  [stored EXCEPT
         !.updatedAt = t,
         !.items = [k \in 1..Len(stored.items) |->
                      IF k \notin first THEN stored.items[k]
                      ELSE [f \in DOMAIN stored.items[k] |->
                              IF f \in Changed(k) THEN newItems[k][f]
                              ELSE IF f = "updatedAt" THEN t ELSE stored.items[k][f]]]]

\* doc.save(): the stored document after the update
SaveModified(stored, loaded, newItems, t) ==
  LET Changed(k) == {f \in DOMAIN newItems[k] \ {"updatedAt"} : newItems[k][f] # loaded.items[k][f]}
  IN  [stored EXCEPT
         !.updatedAt = t,
         !.items = [k \in 1..Len(stored.items) |->
                      IF k > Len(newItems) \/ Changed(k) = {} THEN stored.items[k]
                      ELSE [f \in DOMAIN stored.items[k] |->
                              IF f \in Changed(k) THEN newItems[k][f]
                              ELSE IF f = "updatedAt" THEN t ELSE stored.items[k][f]]]]

\* estimate-prices: ShoppingList.findOne
EstimateFind(u, id, strategy, onlyMissing) ==
  /\ left > 0
  /\ left' = left - 1
  /\ UNCHANGED <<lists, now, pushes>>
  /\ IF ~Found(lists, id, u)
       THEN /\ resp' = ReplyTo([user |-> u], "estimate", 404, id, NoBody)
            /\ UNCHANGED procs
       ELSE /\ procs' = Append(procs, Proc("estimate", u, id, 0, NoPatch, strategy, onlyMissing,
                                            lists[id]))
            /\ UNCHANGED resp

\* estimate-prices: aggregateUserHistory, then the loop over the loaded items
EstimateCompute(p) ==
  /\ p \in DOMAIN procs
  /\ procs[p].op = "estimate" /\ procs[p].pc = "found"
  /\ LET pr   == procs[p]
         hist == aggregateUserHistory(lists, pr.user, "", NoDays, now)
     IN  procs' = [procs EXCEPT
                     ![p].pc = "computed",
                     ![p].doc.items = [k \in 1..Len(pr.loaded.items) |->
                                         EstimatedItem(pr.loaded.items[k], hist, pr.strategy,
                                                       pr.onlyMissing)]]
  /\ UNCHANGED <<lists, now, resp, left, pushes>>

\* estimate-prices: list.save() and the reply
EstimateSave(p) ==
  /\ p \in DOMAIN procs
  /\ procs[p].op = "estimate" /\ procs[p].pc = "computed"
  /\ LET pr == procs[p]
     IN  /\ lists' = [lists EXCEPT ![pr.id] = SaveModified(@, pr.loaded, pr.doc.items, now)]
         /\ resp' = ReplyTo(EstimateReq(pr.user, pr.strategy, "", NoDays, pr.onlyMissing),
                            "estimate", 200, pr.id, NoBody)
  /\ procs' = [procs EXCEPT ![p].pc = "done", ![p].writes = @ + 1]
  /\ now' = now + 1
  /\ UNCHANGED <<left, pushes>>

\* estimate-prices: an await before the write rejects (the store is away)
EstimateFail(p) ==
  /\ p \in DOMAIN procs
  /\ procs[p].op = "estimate" /\ procs[p].pc \in {"found", "computed"}
  /\ procs' = [procs EXCEPT ![p].pc = "failed"]
  /\ resp' = ReplyTo([user |-> procs[p].user], "estimate", 500, procs[p].id, NoBody)
  /\ UNCHANGED <<lists, now, left, pushes>>

\* PATCH item: ShoppingList.findOne and list.items.id
PatchFind(u, id, itemId, patch) ==
  /\ left > 0
  /\ left' = left - 1
  /\ UNCHANGED <<lists, now, pushes>>
  /\ IF ~Found(lists, id, u) \/ itemId > Len(lists[id].items)
       THEN /\ resp' = Reply("patchItem", 404, id, NoBody)
            /\ UNCHANGED procs
       ELSE /\ procs' = Append(procs, Proc("patchItem", u, id, itemId, patch, "", FALSE, lists[id]))
            /\ UNCHANGED resp

\* PATCH item: Object.assign on the loaded item, list.save() and the reply
PatchSave(p) ==
  /\ p \in DOMAIN procs
  /\ procs[p].op = "patchItem" /\ procs[p].pc = "found"
  /\ LET pr      == procs[p]
         patched == [pr.loaded.items EXCEPT ![pr.item] = PatchedItem(@, pr.patch)]
     IN  /\ lists' = [lists EXCEPT ![pr.id] = SaveModified(@, pr.loaded, patched, now)]
         /\ procs' = [procs EXCEPT ![p].pc = "done", ![p].writes = @ + 1, ![p].doc.items = patched]
         /\ resp' = Reply("patchItem", 200, pr.id, NoBody)
  /\ now' = now + 1
  /\ UNCHANGED <<left, pushes>>

\* SpecRace: A's first list holds a purchase of rice and two or three items to
\* price, A's second list an item more; two requests of A are in flight.
RaceItems ==
  { << NewItem("rice", 1, "kg", "graos", 0, 300, TRUE, "", 0),
       NewItem("rice", 2, "kg", "", p1, 0, FALSE, "", 0),
       NewItem("rice", 1, "g", "graos", 0, 0, FALSE, "", 0) >> : p1 \in {0, 700} }

RacePatches ==
  { [plannedPrice |-> 500],
    [name |-> "leite", qty |-> 3],
    [purchased |-> TRUE, purchasedPrice |-> 160] }

InitRace ==
  /\ \E items \in RaceItems :
       lists = << NewList("A", 0, Dated(items, FALSE), 2 * MaxItems),
                  NewList("A", 0, <<NewItem("leite", 1, "l", "laticinios", 0, 0, FALSE, "", 1)>>, 1) >>
  /\ now = 2 * MaxItems + 1
  /\ resp = Reply("none", 0, 0, NoBody)
  /\ pushes = << >>
  /\ procs = << >>
  /\ left = RaceOps

NextRace ==
  \/ \E id \in ListIds, st \in {"median"}, om \in BOOLEAN : EstimateFind("A", id, st, om)
  \/ \E p \in 1..RaceOps : EstimateCompute(p)
  \/ \E p \in 1..RaceOps : EstimateSave(p)
  \/ \E p \in 1..RaceOps : EstimateFail(p)
  \/ \E id \in ListIds, k \in ItemIds, patch \in RacePatches : PatchFind("A", id, k, patch)
  \/ \E p \in 1..RaceOps : PatchSave(p)

SpecRace == InitRace /\ [][NextRace]_vars

\* SpecAlerts: the stores of SpecBudget, and the summary of A's list asked for
\* twice, the alerts settling in between or after.
InitAlerts ==
  /\ \E ps \in BudgetSeqs, b \in Budgets, al \in BudgetAlerts :
       lists = << [NewList("A", b, Dated(BudgetItems(ps), FALSE), 2 * MaxItems)
                     EXCEPT !.alerts = al] >>
  /\ now = 2 * MaxItems + 1
  /\ resp = Reply("none", 0, 0, NoBody)
  /\ pushes = << >>
  /\ procs = << >>
  /\ left = TwiceOps

NextAlertsTwice ==
  \/ \E u \in Users, id \in ListIds : Summary(u, id)
  \/ \E i \in 1..TwiceOps, o \in PushOutcomes : Deliver(i, o)

SpecAlerts == InitAlerts /\ [][NextAlertsTwice]_vars

\* ----------------------------------------------------------------------------
\* The price log. itemSchema gives every item a priceHistory, [] by default;
\* GET /shopping-lists/prices/search lists its entries.
\* zod objects strip the keys they do not declare
ItemCreateKeys == {"name", "qty", "unit", "category", "plannedPrice", "store", "notes"}
ItemPatchKeys == ItemCreateKeys \cup {"purchasedPrice", "purchased"}

itemCreateZ(body) == [f \in DOMAIN body \cap ItemCreateKeys |-> body[f]]

\* a schema that lets undeclared keys through
ItemPatchLoose(body) == body

itemPatchZ(body) == [f \in DOMAIN body \cap ItemPatchKeys |-> body[f]]

\* ------------------------------------------------ PUT /shopping-lists/:id
UpdateList(u, id, budget) ==
  /\ left > 0
  /\ left' = left - 1
  /\ UNCHANGED <<pushes, procs>>
  /\ IF ~Found(lists, id, u)
       THEN /\ resp' = Reply("update", 404, id, NoBody)
            /\ UNCHANGED <<lists, now>>
       ELSE /\ lists' = [lists EXCEPT ![id] =
                           SaveList([@ EXCEPT !.budget = budget], @.items, now)]
            /\ resp' = Reply("update", 200, id, NoBody)
            /\ now' = now + 1

\* ----------------------------------- GET /shopping-lists/prices/search
\* new RegExp(name, 'i').test(itemName) on the names of the model
RegExpTest(name, itemName) ==
  LET s == Lower(Trim(itemName))
  IN  CASE Lower(name) \in {"ric", "rice"} -> s = "rice"
        [] Lower(name) = "leite"         -> s = "leite"
        [] OTHER                         -> FALSE

RECURSIVE Flatten(_)
Flatten(ss) == IF ss = << >> THEN << >> ELSE Head(ss) \o Flatten(Tail(ss))

\* the entries pushed to `results` for one item
EntriesOfItem(it, name, store) ==
  IF ~RegExpTest(name, it.name) THEN << >>
  ELSE LET Keep(ph) == ~(store # "" /\ (ph.store = "" \/ Lower(ph.store) # Lower(store)))
           kept == SelectSeq(it.priceHistory, Keep)
       IN  [i \in 1..Len(kept) |->
              [itemName |-> it.name, store |-> kept[i].store,
               date |-> kept[i].date, price |-> kept[i].price]]

\* the `history` of the reply: the entries of the caller's lists, newest first
PricesFound(ls, u, name, store) ==
  SortByDateDesc(Flatten(
    [i \in 1..Len(ls) |->
       IF ls[i].user = u /\ \E k \in 1..Len(ls[i].items) : RegExpTest(name, ls[i].items[k].name)
         THEN Flatten([k \in 1..Len(ls[i].items) |-> EntriesOfItem(ls[i].items[k], name, store)])
         ELSE << >>]))

PricesSearch(u, name, store) ==
  /\ left > 0
  /\ left' = left - 1
  /\ resp' = ReplyTo([user |-> u, name |-> name, store |-> store], "search", 200, 0,
                     [count |-> Len(PricesFound(lists, u, name, store)),
                      history |-> PricesFound(lists, u, name, store)])
  /\ UNCHANGED <<lists, now, pushes, procs>>

\* SpecPrices: from the empty store, A creates and updates a list, adds rice
\* and leite, patches and purchases them, backfills, synthesises and searches;
\* some bodies carry a priceHistory of their own.
PriceLog == << [date |-> 1, store |-> "lidl", price |-> 300] >>

PricesAddBodies ==
  { [name |-> "rice", qty |-> 1, unit |-> "kg"],
    [name |-> "leite", qty |-> 1, unit |-> "l", priceHistory |-> PriceLog] }

PricesPatchBodies ==
  { [purchased |-> TRUE, purchasedPrice |-> 300, store |-> "lidl"],
    [purchased |-> TRUE, purchasedPrice |-> 160, priceHistory |-> PriceLog],
    [priceHistory |-> PriceLog] }

PricesPlans == { << [name |-> "rice", qty |-> 2, unit |-> "kg"] >> }
PriceQueries == {"ric", "Rice", "leite"}

InitPrices ==
  /\ lists = << >>
  /\ now = 1
  /\ resp = Reply("none", 0, 0, NoBody)
  /\ pushes = << >>
  /\ procs = << >>
  /\ left = PricesOps

NextPrices ==
  \/ \E b \in Budgets : CreateList("A", b)
  \/ \E b \in Budgets : UpdateList("A", 1, b)
  \/ \E body \in PricesAddBodies : AddItem("A", 1, itemCreateZ(body))
  \/ \E k \in 1..2, body \in PricesPatchBodies : PatchItem("A", 1, k, itemPatchZ(body))
  \/ \E st \in {"last", "median"} : EstimatePrices("A", 1, st, "", NoDays, FALSE)
  \/ \E plan \in PricesPlans : FromMealPlan("A", 5000, TRUE, "median", "", NoDays, plan)
  \/ \E q \in PriceQueries, s \in {"", "LIDL"} : PricesSearch("A", q, s)

SpecPrices == InitPrices /\ [][NextPrices]_vars

\* ============================================================================
\* The copy of the module at src/routes/shoppingLists.js, which the server
\* registers.  Its helpers have no conversion table: the key of a group is the
\* name and the canonical unit, and a price is per unit of the recorded unit.
\* Its handlers are the handlers above, calling these helpers.
\* (The accents of 'colher chá' and 'xícara' are dropped.)
routes_mapUnit(u) ==
  LET u0 == IF u = Null THEN "" ELSE Lower(Trim(u))
  IN  CASE u0 \in {"g", "gram", "grams"}                 -> "g"
        [] u0 \in {"kg", "kilogram", "kilograms"}        -> "kg"
        [] u0 \in {"ml", "milliliter", "milliliters"}    -> "ml"
        [] u0 \in {"l", "liter", "liters"}               -> "l"
        [] u0 \in {"tbsp", "tablespoon"}                 -> "colher"
        [] u0 \in {"tsp", "teaspoon"}                    -> "colher cha"
        [] u0 \in {"cup", "cups"}                        -> "xicara"
        [] u0 \in {"slice", "slices"}                    -> "fatia"
        [] u0 \in {"pinch", "pinches"}                   -> "pitada"
        [] u0 \in {"clove", "cloves"}                    -> "dente"
        [] u0 \in {"piece", "pieces", "unidade", "unidades", "uni", "un"} -> "un"
        [] OTHER                                         -> IF u0 = "" THEN "un" ELSE u0

routes_keyOf(name, unit) == <<Lower(Trim(name)), routes_mapUnit(unit)>>

\* The tests before entry.records.push: purchased, name, since, store, price
routes_PassesFilters(it, l, store, days, t) ==
  /\ it.purchased
  /\ Trim(it.name) # ""
  /\ ~(days # NoDays /\ EffectiveDate(it, l) < t - days)
  /\ ~(store # "" /\ it.store # "" /\ Lower(it.store) # Lower(store))
  /\ it.purchasedPrice > 0

\* unitPrice = qty > 0 ? price / qty : null
routes_HistRecord(it, l) ==
  [name |-> Trim(it.name), unit |-> routes_mapUnit(it.unit), qty |-> it.qty,
   price |-> it.purchasedPrice,
   unitPrice |-> IF it.qty > 0 THEN <<it.purchasedPrice, it.qty>> ELSE Null,
   store |-> IF it.store = "" THEN Null ELSE it.store,
   date |-> EffectiveDate(it, l),
   category |-> IF it.category = "" THEN Null ELSE it.category]

routes_aggregateUserHistory(ls, userId, store, days, t) ==
  LET all    == ItemsInOrder(ls, userId, 1)
      Pass(p) == routes_PassesFilters(p.it, p.l, store, days, t)
      passed == SelectSeq(all, Pass)
      keys   == {routes_keyOf(passed[i].it.name, passed[i].it.unit) : i \in 1..Len(passed)}
      recsOf(key) ==
        LET Mine(p) == routes_keyOf(p.it.name, p.it.unit) = key
            mine == SelectSeq(passed, Mine)
        IN  [i \in 1..Len(mine) |-> routes_HistRecord(mine[i].it, mine[i].l)]
  IN  [key \in keys |->
        [records |-> SortByDateDesc(recsOf(key)),
         categoryMode |-> CategoryMode(recsOf(key), 1, Null)]]

\* strategy applied to the unitPrice values of the valid records
routes_pickUnitPrice(valid, strategy) ==
  pickUnitPrice([i \in 1..Len(valid) |-> [unitPriceBase |-> valid[i].unitPrice]], strategy)

routes_suggestPrice(records, qtyWanted, strategy) ==
  LET Valid(r) == r.unitPrice # Null /\ r.unitPrice[1] > 0
      valid    == SelectSeq(records, Valid)
      fallback == records[1]
  IN  IF valid = << >>
        THEN IF qtyWanted <= 0 THEN fallback.price
             ELSE (fallback.price * qtyWanted) \div (IF fallback.qty = 0 THEN 1 ELSE fallback.qty)
        ELSE ToFixed2(routes_pickUnitPrice(valid, strategy),
                      IF qtyWanted = 0 THEN 1 ELSE qtyWanted)

routes_AddedItem(payload, t) ==
  [AddedItem(payload, t) EXCEPT
     !.unit = routes_mapUnit(IF Has(payload, "unit") THEN payload.unit ELSE Null)]

routes_AddItem(u, id, payload) ==
  /\ left > 0
  /\ left' = left - 1
  /\ UNCHANGED <<pushes, procs>>
  /\ IF ~Found(lists, id, u)
       THEN /\ resp' = Reply("addItem", 404, id, NoBody)
            /\ UNCHANGED <<lists, now>>
       ELSE /\ Len(lists[id].items) < MaxItems
            /\ lists' = [lists EXCEPT ![id] =
                           SaveList(@, Append(@.items, routes_AddedItem(payload, now)), now)]
            /\ resp' = Reply("addItem", 201, id, NoBody)
            /\ now' = now + 1

routes_PatchedItem(item, patch) ==
  IF Has(patch, "unit") /\ patch.unit # ""
    THEN [PatchedItem(item, patch) EXCEPT !.unit = routes_mapUnit(patch.unit)]
    ELSE PatchedItem(item, patch)

routes_PatchItem(u, id, itemId, patch) ==
  /\ left > 0
  /\ left' = left - 1
  /\ UNCHANGED <<pushes, procs>>
  /\ IF ~Found(lists, id, u) \/ itemId > Len(lists[id].items)
       THEN /\ resp' = Reply("patchItem", 404, id, NoBody)
            /\ UNCHANGED <<lists, now>>
       ELSE /\ lists' = [lists EXCEPT ![id] =
                           SaveList(@, [@.items EXCEPT ![itemId] = routes_PatchedItem(@, patch)], now)]
            /\ resp' = Reply("patchItem", 200, id, NoBody)
            /\ now' = now + 1

routes_EstimatedItem(it, hist, strategy, onlyMissing) ==
  IF onlyMissing /\ it.plannedPrice > 0 THEN it
  ELSE LET key == routes_keyOf(it.name, it.unit)
       IN  IF key \notin DOMAIN hist \/ hist[key].records = << >> THEN it
           ELSE LET h == hist[key]
                    qtyWanted == IF it.qty = 0 THEN 1 ELSE it.qty
                IN  [it EXCEPT !.plannedPrice = routes_suggestPrice(h.records, qtyWanted, strategy),
                               !.category = IF @ = "" /\ h.categoryMode # Null
                                              THEN h.categoryMode ELSE @]

routes_Backfilled(ls, id, u, strategy, store, days, onlyMissing, t) ==
  LET hist == routes_aggregateUserHistory(ls, u, store, days, t)
      l    == ls[id]
  IN  SaveList(l, [k \in 1..Len(l.items) |->
                     routes_EstimatedItem(l.items[k], hist, strategy, onlyMissing)], t)

routes_EstimatePrices(u, id, strategy, store, days, onlyMissing) ==
  /\ left > 0
  /\ left' = left - 1
  /\ UNCHANGED <<pushes, procs>>
  /\ IF ~Found(lists, id, u)
       THEN /\ resp' = ReplyTo([user |-> u], "estimate", 404, id, NoBody)
            /\ UNCHANGED <<lists, now>>
       ELSE /\ lists' = [lists EXCEPT ![id] =
                           routes_Backfilled(lists, id, u, strategy, store, days, onlyMissing, now)]
            /\ resp' = ReplyTo(EstimateReq(u, strategy, store, days, onlyMissing),
                               "estimate", 200, id, NoBody)
            /\ now' = now + 1

routes_PlannedItem(inItem, hist, strategy, store, t) ==
  LET nm   == Trim(inItem.name)
      unit == routes_mapUnit(inItem.unit)
      key  == routes_keyOf(nm, unit)
  IN  IF ~HasHistory(hist, key)
        THEN NewItem(nm, inItem.qty, unit, autoCategory(nm), 0, 0, FALSE, "", t)
        ELSE LET h == hist[key]
             IN  NewItem(nm, inItem.qty, unit,
                         IF h.categoryMode # Null THEN h.categoryMode ELSE autoCategory(nm),
                         routes_suggestPrice(h.records, inItem.qty, strategy),
                         0, FALSE, store, t)

routes_UnknownEntry(inItem) ==
  [name |-> Trim(inItem.name), unit |-> routes_mapUnit(inItem.unit), qty |-> inItem.qty]

routes_Known(inItem, hist) ==
  HasHistory(hist, routes_keyOf(Trim(inItem.name), routes_mapUnit(inItem.unit)))

routes_UnknownOf(plan, hist, allowUnknown) ==
  LET Missing(inItem) == ~allowUnknown /\ ~routes_Known(inItem, hist)
      missing == SelectSeq(plan, Missing)
  IN  [i \in 1..Len(missing) |-> routes_UnknownEntry(missing[i])]

routes_ItemsToInsert(plan, hist, allowUnknown, strategy, store, t) ==
  LET Kept(inItem) == allowUnknown \/ routes_Known(inItem, hist)
      kept == SelectSeq(plan, Kept)
  IN  [i \in 1..Len(kept) |-> routes_PlannedItem(kept[i], hist, strategy, store, t)]

routes_FromMealPlan(u, budget, allowUnknown, strategy, store, days, plan) ==
  /\ left > 0
  /\ left' = left - 1
  /\ UNCHANGED <<pushes, procs>>
  /\ LET hist    == routes_aggregateUserHistory(lists, u, store, days, now)
         unknown == routes_UnknownOf(plan, hist, allowUnknown)
     IN  IF unknown # << >>
           THEN /\ resp' = ReplyTo(MealPlanReq(u, allowUnknown, strategy, store, days, plan),
                                   "mealplan", 400, 0, unknown)
                /\ UNCHANGED <<lists, now>>
           ELSE IF ValidationFails(routes_ItemsToInsert(plan, hist, allowUnknown, strategy, store, now))
           THEN /\ resp' = ReplyTo(MealPlanReq(u, allowUnknown, strategy, store, days, plan),
                                   "mealplan", 500, 0, NoBody)
                /\ UNCHANGED <<lists, now>>
           ELSE /\ Len(lists) < MaxLists
                /\ lists' = Append(lists,
                     NewList(u, budget,
                             routes_ItemsToInsert(plan, hist, allowUnknown, strategy, store, now),
                             now))
                /\ resp' = ReplyTo(MealPlanReq(u, allowUnknown, strategy, store, days, plan),
                                   "mealplan", 201, Len(lists) + 1, NoBody)
                /\ now' = now + 1

routes_Next ==
  \/ \E u \in Users, b \in Budgets : CreateList(u, b)
  \/ \E u \in Users, id \in ListIds, p \in AddPayloads : routes_AddItem(u, id, p)
  \/ \E u \in Users, id \in ListIds, k \in ItemIds, p \in Patches : routes_PatchItem(u, id, k, p)
  \/ \E u \in Users, id \in ListIds : Summary(u, id)
  \/ \E u \in Users, id \in ListIds, st \in Strategies, f \in Filters, om \in BOOLEAN :
        routes_EstimatePrices(u, id, st, f.store, f.days, om)
  \/ \E u \in Users, b \in PlanBudgets, au \in BOOLEAN, st \in Strategies, f \in Filters,
        plan \in Plans : routes_FromMealPlan(u, b, au, st, f.store, f.days, plan)

\* the initial stores hold canonical units (kg, g, l, un), which routes_mapUnit
\* leaves as they are: they are stores of this copy too
SpecRoutes == Init /\ [][routes_Next]_vars

\* ================================================================ claims
Range(f) == {f[i] : i \in DOMAIN f}
NormName(n) == Lower(Trim(n))

\* the items of the lists of u, as <<list, item>> positions
ItemsOf(u) == {p \in (1..Len(lists)) \X ItemIds :
                 lists[p[1]].user = u /\ p[2] <= Len(lists[p[1]].items)}
ItemAt(p) == lists[p[1]].items[p[2]]
\* a completed purchase: purchased, with a price and a quantity
IsEvidence(it) == it.purchased /\ it.purchasedPrice > 0 /\ it.qty > 0
RecordAt(p) == HistRecord(ItemAt(p), lists[p[1]])
FullHistory(u) == aggregateUserHistory(lists, u, "", NoDays, now)

\* the units a request in unit `unit` may be priced from, by the claim
Convertible(unit) ==
  CASE mapUnit(unit) \in {"g", "kg"} -> {"g", "kg"}
    [] mapUnit(unit) \in {"ml", "l"} -> {"ml", "l"}
    [] OTHER                         -> {}

RECURSIVE SeqOfPositions(_, _, _)
\* the positions of ItemsOf(u) in iteration order
SeqOfPositions(u, i, k) ==
  IF i > Len(lists) THEN << >>
  ELSE IF k > Len(lists[i].items) THEN SeqOfPositions(u, i + 1, 1)
  ELSE (IF lists[i].user = u THEN << <<i, k>> >> ELSE << >>) \o SeqOfPositions(u, i, k + 1)

\* the purchases of u of the same name in a unit convertible with `it.unit`, newest first
ConvertibleRecords(u, it) ==
  LET Same(p) == /\ IsEvidence(ItemAt(p))
                 /\ NormName(ItemAt(p).name) = NormName(it.name)
                 /\ mapUnit(ItemAt(p).unit) \in Convertible(it.unit)
      ps == SelectSeq(SeqOfPositions(u, 1, 1), Same)
  IN  SortByDateDesc([i \in 1..Len(ps) |-> RecordAt(ps[i])])

\* C1: two purchases of the same normalized name, one in g and one in kg
\* (likewise ml and l), are in the same history group; a purchase in un or
\* piece(s) is in another group, and a weight or volume item is priced from
\* the purchases in its own conversion group alone.
C1_UnitGrouping ==
  \A u \in Users :
    LET hist == FullHistory(u)
        Together(p, q) == \E key \in DOMAIN hist :
                            {RecordAt(p), RecordAt(q)} \subseteq Range(hist[key].records)
    IN  /\ \A p, q \in ItemsOf(u) :
             (IsEvidence(ItemAt(p)) /\ IsEvidence(ItemAt(q))
                /\ NormName(ItemAt(p).name) = NormName(ItemAt(q).name)) =>
               /\ (<<mapUnit(ItemAt(p).unit), mapUnit(ItemAt(q).unit)>> \in {<<"g", "kg">>, <<"ml", "l">>}
                     => Together(p, q))
               /\ (mapUnit(ItemAt(p).unit) \in {"un", "piece", "pieces"}
                     /\ Convertible(ItemAt(q).unit) # {} => ~Together(p, q))
        /\ \A p \in ItemsOf(u), st \in Strategies :
             Convertible(ItemAt(p).unit) # {} =>
               LET it == ItemAt(p)
                   rs == ConvertibleRecords(u, it)
               IN  EstimatedItem(it, hist, st, FALSE).plannedPrice =
                     IF rs = << >> THEN it.plannedPrice
                     ELSE suggestPrice(rs, IF it.qty = 0 THEN 1 ELSE it.qty, it.unit, st)

\* A bought rice in g, in kg and by the piece; a backfill priced a weight item
C1_Witness ==
  /\ resp.op = "estimate" /\ resp.code = 200 /\ resp.req.user = "A"
  /\ \E p, q \in ItemsOf("A") :
       /\ IsEvidence(ItemAt(p)) /\ IsEvidence(ItemAt(q))
       /\ ItemAt(p).unit = "g" /\ ItemAt(q).unit = "kg"
       /\ NormName(ItemAt(p).name) = NormName(ItemAt(q).name)
  /\ \E p \in ItemsOf("A") :
       ~ItemAt(p).purchased /\ ItemAt(p).unit = "kg" /\ ItemAt(p).plannedPrice > 0

\* C1, of the registered copy: two purchases of the same normalized name, one
\* in g and one in kg (likewise ml and l), are in the same history group; a
\* purchase in un or piece(s) is in another group, and the group a weight or
\* volume item is priced from holds no record in un or piece(s).
C1_RoutesUnitGrouping ==
  \A u \in Users :
    LET hist == routes_aggregateUserHistory(lists, u, "", NoDays, now)
        Rec(p) == routes_HistRecord(ItemAt(p), lists[p[1]])
        Together(p, q) == \E key \in DOMAIN hist :
                            {Rec(p), Rec(q)} \subseteq Range(hist[key].records)
    IN  /\ \A p, q \in ItemsOf(u) :
             (IsEvidence(ItemAt(p)) /\ IsEvidence(ItemAt(q))
                /\ NormName(ItemAt(p).name) = NormName(ItemAt(q).name)) =>
               /\ (<<ItemAt(p).unit, ItemAt(q).unit>> \in {<<"g", "kg">>, <<"ml", "l">>}
                     => Together(p, q))
               /\ (ItemAt(p).unit \in {"un", "piece", "pieces"}
                     /\ ItemAt(q).unit \in {"g", "kg", "ml", "l"} => ~Together(p, q))
        /\ \A p \in ItemsOf(u) :
             LET key == routes_keyOf(ItemAt(p).name, ItemAt(p).unit)
             IN  (ItemAt(p).unit \in {"g", "kg", "ml", "l"} /\ key \in DOMAIN hist) =>
                   \A i \in DOMAIN hist[key].records :
                     hist[key].records[i].unit \notin {"un", "piece", "pieces"}

\* A bought rice in g and in kg, and a backfill of the registered copy ran
C1_RoutesWitness ==
  /\ resp.op = "estimate" /\ resp.code = 200 /\ resp.req.user = "A"
  /\ \E p, q \in ItemsOf("A") :
       /\ IsEvidence(ItemAt(p)) /\ IsEvidence(ItemAt(q))
       /\ ItemAt(p).unit = "g" /\ ItemAt(q).unit = "kg"
       /\ NormName(ItemAt(p).name) = NormName(ItemAt(q).name)

\* a purchase of u that passes the request's filters and is in the group of
\* (name, unit): the same normalized name and the same conversion group
GroupEvidence(u, name, unit, store, days) ==
  {p \in ItemsOf(u) :
     /\ PassesFilters(ItemAt(p), lists[p[1]], store, days, now)
     /\ NormName(ItemAt(p).name) = NormName(name)
     /\ unitInfo(ItemAt(p).unit).group = unitInfo(unit).group}

\* the entries of the plan of request rq that have no history group
MissingOf(rq) ==
  {i \in DOMAIN rq.plan :
     GroupEvidence(rq.user, rq.plan[i].name, rq.plan[i].unit, rq.store, rq.days) = {}}

RiceHistory(u) ==
  LET rice == {p \in ItemsOf(u) : IsEvidence(ItemAt(p)) /\ NormName(ItemAt(p).name) = "rice"}
      Bought(p, qty, unit, price) ==
        ItemAt(p).qty = qty /\ mapUnit(ItemAt(p).unit) = unit /\ ItemAt(p).purchasedPrice = price
  IN  /\ Cardinality(rice) = 2
      /\ \E p \in rice : Bought(p, 1, "kg", 300)
      /\ \E p \in rice : Bought(p, 500, "g", 160)

IsRice2Kg(name, qty, unit) == NormName(name) = "rice" /\ qty = 2 /\ mapUnit(unit) = "kg"
Unfiltered(rq) == rq.store = "" /\ rq.days = NoDays

\* C3: with that history, a median estimate for "rice, 2 kg" is 6.20, whether a
\* backfill writes it on an eligible item or a synthesis on a created item.
C3_RiceEstimate ==
  [][(left' = left - 1 /\ resp'.code \in {200, 201} /\ resp'.op \in {"estimate", "mealplan"}
        /\ resp'.req.strategy = "median" /\ Unfiltered(resp'.req)
        /\ RiceHistory(resp'.req.user)) =>
       /\ resp'.op = "estimate" =>
            \A k \in DOMAIN lists[resp'.id].items :
              LET it == lists[resp'.id].items[k]
              IN  (IsRice2Kg(it.name, it.qty, it.unit)
                     /\ (resp'.req.onlyMissing => it.plannedPrice <= 0)) =>
                    lists'[resp'.id].items[k].plannedPrice = 620
       /\ resp'.op = "mealplan" =>
            /\ Len(lists'[resp'.id].items) = Len(resp'.req.plan)
            /\ \A k \in DOMAIN resp'.req.plan :
                 LET e == resp'.req.plan[k]
                 IN  IsRice2Kg(e.name, e.qty, e.unit) =>
                       lists'[resp'.id].items[k].plannedPrice = 620]_vars

\* a backfill wrote 6.20 on the rice of a user with that history
C3_Witness ==
  /\ resp.op = "estimate" /\ resp.code = 200 /\ resp.req.strategy = "median"
  /\ Unfiltered(resp.req) /\ RiceHistory(resp.req.user)
  /\ \E k \in DOMAIN lists[resp.id].items :
       LET it == lists[resp.id].items[k]
       IN  IsRice2Kg(it.name, it.qty, it.unit) /\ ~it.purchased /\ it.plannedPrice = 620

\* the registered copy wrote 6.00 on the rice of a user with that history
C3_RoutesWitness ==
  /\ resp.op = "estimate" /\ resp.code = 200 /\ resp.req.strategy = "median"
  /\ Unfiltered(resp.req) /\ RiceHistory(resp.req.user)
  /\ \E k \in DOMAIN lists[resp.id].items :
       LET it == lists[resp.id].items[k]
       IN  IsRice2Kg(it.name, it.qty, it.unit) /\ ~it.purchased /\ it.plannedPrice = 600

\* the optional filters of a request, on the item at p
PassesOptional(p, f) ==
  /\ f.store = "" \/ ItemAt(p).store = "" \/ Lower(ItemAt(p).store) = Lower(f.store)
  /\ f.days = NoDays \/ EffectiveDate(ItemAt(p), lists[p[1]]) >= now - f.days

RECURSIVE CountRecords(_, _)
\* the number of records in the groups `keys` of hist
CountRecords(hist, keys) ==
  IF keys = {} THEN 0
  ELSE LET k == CHOOSE x \in keys : TRUE
       IN  Len(hist[k].records) + CountRecords(hist, keys \ {k})

\* the items of u that are completed purchases and pass the filters f
EvidenceOf(u, f) == {p \in ItemsOf(u) : IsEvidence(ItemAt(p)) /\ PassesOptional(p, f)}

\* C4, of the registered copy: the aggregator has one record for each item that
\* is purchased with a price > 0 and a qty > 0 and passes the filters, and no
\* other record: no item that is not purchased contributes one.
C4_RoutesOnlyPurchases ==
  \A u \in Users, f \in Filters :
    LET hist == routes_aggregateUserHistory(lists, u, f.store, f.days, now)
    IN  /\ CountRecords(hist, DOMAIN hist) = Cardinality(EvidenceOf(u, f))
        /\ \A p \in EvidenceOf(u, f) :
             \E key \in DOMAIN hist :
               routes_HistRecord(ItemAt(p), lists[p[1]]) \in Range(hist[key].records)

\* C4, of the copy with conversions: the same statement
C4_OnlyPurchases ==
  \A u \in Users, f \in Filters :
    LET hist == aggregateUserHistory(lists, u, f.store, f.days, now)
    IN  /\ CountRecords(hist, DOMAIN hist) = Cardinality(EvidenceOf(u, f))
        /\ \A p \in EvidenceOf(u, f) :
             \E key \in DOMAIN hist : RecordAt(p) \in Range(hist[key].records)

\* a patch marked an item purchased: the list holds a purchase with a price
\* and no quantity
C4_RoutesWitness ==
  /\ resp.op = "patchItem" /\ resp.code = 200
  /\ \E p \in ItemsOf("A") :
       ItemAt(p).purchased /\ ItemAt(p).purchasedPrice > 0 /\ ItemAt(p).qty = 0

\* list id exists and is owned by u
Owned(id, u) == id \in 1..Len(lists) /\ lists[id].user = u

\* the store with the lists of every user but u emptied
OwnStore(u) ==
  [i \in 1..Len(lists) |-> IF lists[i].user = u THEN lists[i]
                           ELSE [lists[i] EXCEPT !.items = << >>]]

\* C5: what a backfill writes and what a synthesis creates or reports unknown
\* for a user is what it would be with the lists of every other user emptied:
\* it depends on the user's own lists alone.
C5_UserIsolation ==
  [][(left' = left - 1 /\ resp'.op \in {"estimate", "mealplan"} /\ resp'.code \in {200, 201, 400}) =>
       LET rq  == resp'.req
           own == OwnStore(rq.user)
       IN  /\ resp'.op = "estimate" =>
                lists'[resp'.id] = Backfilled(own, resp'.id, rq.user, rq.strategy, rq.store,
                                              rq.days, rq.onlyMissing, now)
           /\ resp'.op = "mealplan" =>
                LET hist    == aggregateUserHistory(own, rq.user, rq.store, rq.days, now)
                    unknown == UnknownOf(rq.plan, hist, rq.allowUnknown)
                IN  /\ resp'.code = 400 <=> unknown # << >>
                    /\ resp'.code = 400 => resp'.body = unknown /\ lists' = lists
                    /\ resp'.code = 201 =>
                         lists'[resp'.id].items =
                           ItemsToInsert(rq.plan, hist, rq.allowUnknown, rq.strategy, rq.store, now)]_vars

\* A paid 3.00 for a kg of rice and B 9.00; a backfill priced A's 2 kg at 6.00
C5_Witness ==
  /\ resp.op = "estimate" /\ resp.code = 200 /\ resp.req.user = "A" /\ Unfiltered(resp.req)
  /\ \E p \in ItemsOf("B") : IsEvidence(ItemAt(p)) /\ NormName(ItemAt(p).name) = "rice"
                               /\ ItemAt(p).unit = "kg" /\ ItemAt(p).purchasedPrice = 900
  /\ \E p \in ItemsOf("A") : ~ItemAt(p).purchased /\ IsRice2Kg(ItemAt(p).name, ItemAt(p).qty, ItemAt(p).unit)
                               /\ ItemAt(p).plannedPrice = 600

\* C6: a backfill of a list that does not exist or is not the caller's is
\* answered 404 and writes nothing: every persisted list is as it was.
C6_BackfillNotFound ==
  [][(left' = left - 1 /\ resp'.op = "estimate" /\ ~Owned(resp'.id, resp'.req.user)) =>
       resp'.code = 404 /\ lists' = lists]_vars

\* A asked for a backfill of B's list, which holds an item with history
C6_Witness ==
  /\ resp.op = "estimate" /\ resp.code = 404 /\ resp.req.user = "A"
  /\ Owned(resp.id, "B") /\ lists[resp.id].items # << >>

\* C7: a summary of a list that does not exist or is not the caller's is
\* answered 404, as a backfill is, with nothing of the list in the reply.
C7_SummaryNotFound ==
  (resp.op = "summary" /\ ~Owned(resp.id, resp.req.user)) =>
    resp.code = 404 /\ resp.body = NoBody

\* A asked for the summary of B's list
C7_Witness ==
  resp.op = "summary" /\ resp.req.user = "A" /\ Owned(resp.id, "B")

\* C8: a backfill of the caller's list succeeds; an item without history group
\* under the request's filters, or with plannedPrice > 0 under onlyMissing,
\* keeps its plannedPrice and category; every other item gets its estimate.
C8_IneligibleUntouched ==
  [][(left' = left - 1 /\ resp'.op = "estimate" /\ Owned(resp'.id, resp'.req.user)) =>
       /\ resp'.code = 200
       /\ Len(lists'[resp'.id].items) = Len(lists[resp'.id].items)
       /\ \A k \in DOMAIN lists[resp'.id].items :
            LET rq    == resp'.req
                it    == lists[resp'.id].items[k]
                after == lists'[resp'.id].items[k]
                noGroup == GroupEvidence(rq.user, it.name, it.unit, rq.store, rq.days) = {}
                hist  == aggregateUserHistory(lists, rq.user, rq.store, rq.days, now)
            IN  IF noGroup \/ (rq.onlyMissing /\ it.plannedPrice > 0)
                  THEN after.plannedPrice = it.plannedPrice /\ after.category = it.category
                  ELSE after.plannedPrice =
                         suggestPrice(hist[keyOf(it.name, it.unit)].records,
                                      IF it.qty = 0 THEN 1 ELSE it.qty, it.unit, rq.strategy)]_vars

\* a backfill with onlyMissing wrote one item and left alone an item planned
\* at 5.00 and an item without history
C8_Witness ==
  /\ resp.op = "estimate" /\ resp.code = 200 /\ resp.req.onlyMissing
  /\ \E k \in DOMAIN lists[resp.id].items : lists[resp.id].items[k].updatedAt = lists[resp.id].updatedAt
  /\ \E k \in DOMAIN lists[resp.id].items :
       LET it == lists[resp.id].items[k]
       IN  (it.plannedPrice = 500 \/ NormName(it.name) = "leite")
             /\ it.updatedAt < lists[resp.id].updatedAt

\* C9: a second backfill of the same list with the same options under
\* onlyMissing, right after the first, leaves every item's plannedPrice at its
\* value after the first.
C9_BackfillIdempotent ==
  [][(left' = left - 1
        /\ resp.op = "estimate" /\ resp.code = 200
        /\ resp'.op = "estimate" /\ resp'.code = 200
        /\ resp'.id = resp.id /\ resp'.req = resp.req
        /\ resp.req.onlyMissing /\ resp.req.days = NoDays) =>
       \A k \in DOMAIN lists[resp.id].items :
         lists'[resp.id].items[k].plannedPrice = lists[resp.id].items[k].plannedPrice]_vars

\* two backfills in a row of A's list, strategy last
C9_Witness ==
  /\ left = 0 /\ resp.op = "estimate" /\ resp.code = 200 /\ resp.req.onlyMissing
  /\ resp.req.strategy = "last" /\ resp.req.user = "A"
  /\ \E k \in DOMAIN lists[resp.id].items :
       lists[resp.id].items[k].purchased /\ lists[resp.id].items[k].updatedAt = now - 2

\* ---- the estimator as a function of the qty wanted
MaxQty == 3
EstimateUnits == {"g", "kg", "un"}
Abs(x) == IF x < 0 THEN -x ELSE x

\* estimate(2q) - 2 * estimate(q) on the records of a group of A's history
DoublingGap(rs, q, unit, st) ==
  suggestPrice(rs, 2 * q, unit, st) - 2 * suggestPrice(rs, q, unit, st)

\* C10, as stated: on every non-empty record set, for every strategy, unit and
\* qty q, estimate(records, 2q, unit) = 2 * estimate(records, q, unit).
C10_Doubling ==
  resp.op = "estimate" =>
    LET hist == FullHistory("A")
    IN  \A key \in DOMAIN hist, st \in Strategies, unit \in EstimateUnits, q \in 0..MaxQty :
          hist[key].records # << >> => DoublingGap(hist[key].records, q, unit, st) = 0

\* C10, amended: for q > 0 the two differ by at most one cent.
C10_DoublingWithinCent ==
  resp.op = "estimate" =>
    LET hist == FullHistory("A")
    IN  \A key \in DOMAIN hist, st \in Strategies, unit \in EstimateUnits, q \in 1..MaxQty :
          hist[key].records # << >> => Abs(DoublingGap(hist[key].records, q, unit, st)) <= 1

\* a record set and a q > 0 where doubling q does not double the estimate
C10_Witness ==
  /\ resp.op = "estimate" /\ resp.code = 200
  /\ LET hist == FullHistory("A")
     IN  \E key \in DOMAIN hist, st \in Strategies, unit \in EstimateUnits, q \in 1..MaxQty :
           hist[key].records # << >> /\ Abs(DoublingGap(hist[key].records, q, unit, st)) = 1

\* ---- the median, stated from the order of the values
\* the k-th smallest of the fractions fs
KthSmallest(fs, k) ==
  LET i == CHOOSE i \in DOMAIN fs :
             /\ Cardinality({j \in DOMAIN fs : FracLess(fs[j], fs[i])}) < k
             /\ Cardinality({j \in DOMAIN fs : ~FracLess(fs[i], fs[j])}) >= k
  IN  fs[i]

MedianOf(fs) ==
  LET n == Len(fs)
  IN  IF n % 2 = 1 THEN KthSmallest(fs, (n + 1) \div 2)
      ELSE FracDivInt(FracAdd(KthSmallest(fs, n \div 2), KthSmallest(fs, n \div 2 + 1)), 2)

UnitPricesOf(rs) == [i \in DOMAIN rs |-> rs[i].unitPriceBase]

\* C11: with strategy median the estimate is the middle one of the per-base-unit
\* prices of the group (the mean of the two middle ones when their count is
\* even) times the base quantity, whatever the order of the records: prices
\* 1, 2, 3 give 2 per base unit and 1, 2, 3, 4 give 2.5; a backfill of every
\* item writes that estimate.
C11_Median ==
  LET hist == FullHistory("A")
      Estimate(rs, q, unit) == ToFixed2(MedianOf(UnitPricesOf(rs)), toBaseQty(q, unit))
  IN  /\ \A key \in DOMAIN hist, unit \in EstimateUnits, q \in 1..MaxQty :
           LET rs == hist[key].records
           IN  rs # << >> =>
                 /\ suggestPrice(rs, q, unit, "median") = Estimate(rs, q, unit)
                 /\ Range(UnitPricesOf(rs)) = {<<100, 1>>, <<200, 1>>, <<300, 1>>} /\ Len(rs) = 3
                      => suggestPrice(rs, q, unit, "median") = 200 * toBaseQty(q, unit)
                 /\ Range(UnitPricesOf(rs)) = {<<100, 1>>, <<200, 1>>, <<300, 1>>, <<400, 1>>}
                      /\ Len(rs) = 4
                      => suggestPrice(rs, q, unit, "median") = 250 * toBaseQty(q, unit)
      /\ (resp.op = "estimate" /\ resp.code = 200 /\ resp.req.user = "A"
            /\ resp.req.strategy = "median" /\ ~resp.req.onlyMissing /\ Unfiltered(resp.req)) =>
           \A k \in DOMAIN lists[resp.id].items :
             LET it  == lists[resp.id].items[k]
                 key == keyOf(it.name, it.unit)
             IN  key \in DOMAIN hist =>
                   it.plannedPrice =
                     Estimate(hist[key].records, IF it.qty = 0 THEN 1 ELSE it.qty, it.unit)

\* A bought at 3.00, 1.00, 4.00, 2.00 in that order; a backfill priced 3 g at 7.50
C11_Witness ==
  /\ resp.op = "estimate" /\ resp.code = 200 /\ resp.req.strategy = "median"
  /\ Unfiltered(resp.req)
  /\ Len(lists[1].items) = 3 /\ Len(lists) >= 2 /\ Len(lists[2].items) = 2
  /\ lists[1].items[1].purchasedPrice = 300 /\ lists[1].items[2].purchasedPrice = 100
  /\ lists[1].items[3].purchasedPrice = 400 /\ lists[2].items[1].purchasedPrice = 200
  /\ \A k \in 1..3 : lists[1].items[k].purchased /\ lists[1].items[k].qty = 1
  /\ lists[2].items[1].purchased /\ lists[2].items[1].qty = 1
  /\ ~lists[2].items[2].purchased /\ lists[2].items[2].plannedPrice = 750

\* ---- the budget status, stated from the items
SpentOf(l) ==
  LET f[k \in 0..Len(l.items)] ==
        IF k = 0 THEN 0
        ELSE f[k - 1] + (IF l.items[k].purchased THEN l.items[k].purchasedPrice ELSE 0)
  IN  f[Len(l.items)]

\* C12: the status of a summary is over iff budget > 0 and spent >= budget *
\* errorPct; else warn iff budget > 0 and spent >= budget * warnPct; else ok;
\* spent sums purchasedPrice over the purchased items only. Budget 100.00 with
\* 0.8 / 1.0: warn at 85.00, over at 100.00, ok at 50.00; no budget: ok.
C12_BudgetStatus ==
  (resp.op = "summary" /\ resp.code = 200) =>
    LET l     == lists[resp.id]
        spent == SpentOf(l)
        over  == l.budget > 0 /\ spent * 100 >= l.budget * l.alerts.errorPct
        warn  == ~over /\ l.budget > 0 /\ spent * 100 >= l.budget * l.alerts.warnPct
    IN  /\ resp.body.spent = spent
        /\ resp.body.status = "over" <=> over
        /\ resp.body.status = "warn" <=> warn
        /\ resp.body.status = "ok" <=> ~over /\ ~warn
        /\ l.budget = 0 => resp.body.status = "ok"
        /\ (l.budget = 10000 /\ l.alerts = DefaultAlerts) =>
             /\ spent = 8500 => resp.body.status = "warn"
             /\ spent = 10000 => resp.body.status = "over"
             /\ spent = 5000 => resp.body.status = "ok"

\* budget 100.00, 35.00 and 65.00 purchased, 15.00 priced but not purchased:
\* spent is exactly the budget and the summary says over
C12_Witness ==
  /\ resp.op = "summary" /\ resp.code = 200 /\ resp.body.status = "over"
  /\ resp.body.spent = 10000 /\ lists[resp.id].budget = 10000
  /\ lists[resp.id].alerts = DefaultAlerts
  /\ \E k \in DOMAIN lists[resp.id].items :
       ~lists[resp.id].items[k].purchased /\ lists[resp.id].items[k].purchasedPrice = 1500

\* C13: for a list in status warn or over the summary answers 200 with the
\* planned, spent, budget, remaining and status of the list while the alert is
\* still in flight, and whatever the push does afterwards (delivered, skipped,
\* exception) the response stays what it was.
C13_AlertSwallowed ==
  [][/\ (resp'.op = "summary" /\ left' = left - 1 /\ Owned(resp'.id, resp'.req.user)) =>
          /\ resp'.code = 200
          /\ resp'.body = SummaryBody(lists[resp'.id])
          /\ \A i \in DOMAIN pushes' : i > Len(pushes) => pushes'[i].outcome = "pending"
     /\ (left' = left /\ pushes' # pushes) =>
          /\ resp' = resp /\ lists' = lists
          /\ \A i \in DOMAIN pushes : pushes[i].status \in {"warn", "over"}]_vars

\* the push of an over summary threw, and the caller keeps the 200 with that status
C13_Witness ==
  /\ resp.op = "summary" /\ resp.code = 200 /\ resp.body.status = "over"
  /\ Len(pushes) = 1 /\ pushes[1].outcome = "notify-failed" /\ pushes[1].status = "over"

\* ---- synthesis with allowUnknown
\* the list a synthesis step appended holds the plan of its request, entry by
\* entry, and prices nothing that has no history group
CreatedFromPlan(rq, l) ==
  /\ Len(l.items) = Len(rq.plan)
  /\ \A k \in DOMAIN rq.plan :
       /\ l.items[k].name = Trim(rq.plan[k].name)
       /\ l.items[k].unit = mapUnit(rq.plan[k].unit)
       /\ l.items[k].qty = rq.plan[k].qty
       /\ k \in MissingOf(rq) =>
            /\ l.items[k].plannedPrice = 0
            /\ ~l.items[k].purchased
            /\ l.items[k].category = autoCategory(Trim(rq.plan[k].name))

\* C14: a from-mealplan request with allowUnknown=true is never rejected: it
\* creates a list with one item per ingredient of the plan, in the order of
\* the plan, and every ingredient without history group gets plannedPrice 0,
\* purchased false and the category classified from its name.
C14_AllowUnknownCreates ==
  [][(resp'.op = "mealplan" /\ left' = left - 1 /\ resp'.req.allowUnknown) =>
       /\ resp'.code = 201
       /\ Len(lists') = Len(lists) + 1
       /\ CreatedFromPlan(resp'.req, lists'[Len(lists')])]_vars

\* the same for plans whose ingredient names hold more than white space
C14_NamedIngredients ==
  [][(resp'.op = "mealplan" /\ left' = left - 1 /\ resp'.req.allowUnknown
        /\ \A k \in DOMAIN resp'.req.plan : Trim(resp'.req.plan[k].name) # "") =>
       /\ resp'.code = 201
       /\ Len(lists') = Len(lists) + 1
       /\ CreatedFromPlan(resp'.req, lists'[Len(lists')])]_vars

\* a request with allowUnknown=true was answered 500 and created nothing
C14_Witness ==
  /\ resp.op = "mealplan" /\ resp.code = 500 /\ resp.req.allowUnknown
  /\ \E k \in DOMAIN resp.req.plan : resp.req.plan[k].name = " "
  /\ Len(lists) = 2

\* ---- retrying a synthesis after purchases
\* user u holds a purchase of the ingredient: same normalized name, same
\* conversion group, purchased, with a price and a quantity above 0
Bought(u, inItem) ==
  \E p \in ItemsOf(u) :
    /\ IsEvidence(ItemAt(p))
    /\ NormName(ItemAt(p).name) = NormName(inItem.name)
    /\ unitInfo(ItemAt(p).unit).group = unitInfo(inItem.unit).group

Names(body, inItem) ==
  \E j \in DOMAIN body :
    body[j].name = Trim(inItem.name) /\ body[j].unit = mapUnit(inItem.unit)

RetryHolds(rq, r, ls, ls2) ==
  /\ \A i \in DOMAIN rq.plan :
       (Bought(rq.user, rq.plan[i]) /\ r.code = 400) => ~Names(r.body, rq.plan[i])
  /\ (\A i \in DOMAIN rq.plan : Bought(rq.user, rq.plan[i])) =>
       r.code = 201 /\ Len(ls2) = Len(ls) + 1

\* C15: once the user holds a purchase of an ingredient, an unfiltered
\* from-mealplan request with allowUnknown=false no longer names it as unknown,
\* and when every ingredient of the plan has been purchased the request creates
\* the list: a rejected request succeeds on retry after the purchases.
C15_RetryAfterPurchase ==
  [][(resp'.op = "mealplan" /\ left' = left - 1
        /\ ~resp'.req.allowUnknown /\ Unfiltered(resp'.req)) =>
       RetryHolds(resp'.req, resp', lists, lists')]_vars

\* the same for plans whose ingredient names hold more than white space
C15_NamedRetry ==
  [][(resp'.op = "mealplan" /\ left' = left - 1
        /\ ~resp'.req.allowUnknown /\ Unfiltered(resp'.req)
        /\ \A k \in DOMAIN resp'.req.plan : Trim(resp'.req.plan[k].name) # "") =>
       RetryHolds(resp'.req, resp', lists, lists')]_vars

\* the item named " " is purchased and the retry still names "" as unknown
C15_Witness ==
  /\ resp.op = "mealplan" /\ resp.code = 400
  /\ Len(resp.req.plan) = 1 /\ resp.req.plan[1].name = " "
  /\ Bought("A", resp.req.plan[1])
  /\ Names(resp.body, resp.req.plan[1])

\* rice and milk were unknown, both were purchased, and the retry created the list
C15_NamedWitness ==
  /\ resp.op = "mealplan" /\ resp.code = 201 /\ left = RetryOps - 4
  /\ Len(resp.req.plan) = 2 /\ Len(lists) = 2
  /\ lists[1].items[1].purchased /\ lists[1].items[2].purchased /\ ~lists[1].items[3].purchased
  /\ lists[2].items[1].plannedPrice = 600000

\* ---- base quantities
\* the multiplier the base quantity is taken with, by unit name
FactorOf(unit) == IF unit \in {"kg", "l"} THEN 1000 ELSE 1

PlainUnits == {"g", "kg", "ml", "l", "slice", "cup", "un", "pinch", "piece"}

\* C16: toBaseQty multiplies the quantity by the factor of the unit, 1000 for
\* kg and l and 1 for g, ml and every other unit: 2 kg are 2000, 1.5 l (15
\* tenths) are 1500 (15000 tenths), 3 slices are 3; the records of the history
\* and the price a backfill writes from a single purchase are taken with these
\* base quantities.
C16_BaseQuantity ==
  /\ \A unit \in PlainUnits, q \in 0..MaxQty : toBaseQty(q, unit) = q * FactorOf(unit)
  /\ toBaseQty(2, "kg") = 2000 /\ toBaseQty(15, "l") = 15000 /\ toBaseQty(3, "slice") = 3
  /\ \A p \in ItemsOf("A") :
       (IsEvidence(ItemAt(p)) /\ ItemAt(p).unit \in PlainUnits) =>
          RecordAt(p).baseQty = ItemAt(p).qty * FactorOf(ItemAt(p).unit)
  /\ (resp.op = "estimate" /\ resp.code = 200 /\ ~resp.req.onlyMissing) =>
       \A p \in ItemsOf("A") :
         LET it  == ItemAt(p)
             key == keyOf(it.name, it.unit)
             h   == FullHistory("A")
         IN  (it.unit \in PlainUnits /\ it.qty > 0 /\ key \in DOMAIN h /\ Len(h[key].records) = 1) =>
                it.plannedPrice =
                  ToFixed2(h[key].records[1].unitPriceBase, it.qty * FactorOf(it.unit))

\* 2 kg were bought for 30.00 and a backfill priced 3 kg at 45.00
C16_Witness ==
  /\ resp.op = "estimate" /\ resp.code = 200
  /\ Len(lists[1].items) = 2
  /\ lists[1].items[1].purchased /\ lists[1].items[1].unit = "kg"
  /\ lists[1].items[1].qty = 2 /\ lists[1].items[1].purchasedPrice = 3000
  /\ lists[1].items[2].unit = "kg" /\ lists[1].items[2].qty = 3
  /\ lists[1].items[2].plannedPrice = 4500

\* ---- unit names spelled out
\* a name spelled out or in the plural, and the short form it stands for
Synonyms ==
  { <<"gram", "g">>, <<"grams", "g">>, <<"kilogram", "kg">>, <<"kilograms", "kg">>,
    <<"milliliter", "ml">>, <<"milliliters", "ml">>, <<"liter", "l">>, <<"liters", "l">>,
    <<"Liters ", "l">>, <<"KG ", "kg">> }

\* the synonym is taken as its short form: by the table, and by the items
\* stored, the records aggregated and the keys looked up
TakenAsShort(sy) ==
  /\ unitInfo(sy[1]) = unitInfo(sy[2])
  /\ \A p \in ItemsOf("A") :
       (ItemAt(p).unit = sy[1] /\ IsEvidence(ItemAt(p))) =>
          /\ RecordAt(p).baseQty = toBaseQty(ItemAt(p).qty, sy[2])
          /\ keyOf(ItemAt(p).name, ItemAt(p).unit) = keyOf(ItemAt(p).name, sy[2])

\* C17: gram/grams, kilogram/kilograms, milliliter/milliliters and
\* liter/liters, trimmed and lower-cased, have the canonical name, the group
\* and the factor of g, kg, ml and l.
C17_Synonyms == \A sy \in Synonyms : TakenAsShort(sy)

\* the same without kilogram and kilograms
C17_KnownSynonyms ==
  \A sy \in Synonyms : sy[1] \notin {"kilogram", "kilograms"} => TakenAsShort(sy)

\* the registered copy maps every synonym to its short form
C17_RoutesCanonical == \A sy \in Synonyms : routes_mapUnit(sy[1]) = sy[2]

\* 2 kilogram were bought, and a backfill finds no price for 3 kg
C17_Witness ==
  /\ resp.op = "estimate" /\ resp.code = 200 /\ ~resp.req.onlyMissing
  /\ Len(lists[1].items) = 2
  /\ lists[1].items[1].purchased /\ lists[1].items[1].unit = "kilogram"
  /\ lists[1].items[2].unit = "kg" /\ lists[1].items[2].plannedPrice = 0
  /\ unitInfo("kilogram").group = "other" /\ unitInfo("kilogram").factor = 1

\* ---- the store filter
\* the records the aggregator returns to u under filter f
RecordsUnder(u, f) ==
  LET hist == aggregateUserHistory(lists, u, f.store, f.days, now)
  IN  UNION {Range(hist[key].records) : key \in DOMAIN hist}

\* C18: under a store filter every record of every group has a store equal to
\* the filter up to case: a purchase in another store, or without a store,
\* gives no record.
C18_StoreFilter ==
  \A u \in Users, f \in Filters :
    f.store # "" =>
      \A r \in RecordsUnder(u, f) : r.store # Null /\ Lower(r.store) = Lower(f.store)

\* under a store filter no record is of another store
C18_NoOtherStore ==
  \A u \in Users, f \in Filters :
    f.store # "" =>
      \A r \in RecordsUnder(u, f) : r.store = Null \/ Lower(r.store) = Lower(f.store)

\* A's purchases name no store, and a backfill filtered by store LIDL priced
\* 2 kg of rice at 6.40 from the 500 g bought for 1.60
C18_Witness ==
  /\ resp.op = "estimate" /\ resp.code = 200 /\ resp.req.user = "A" /\ resp.req.store = "LIDL"
  /\ \A p \in ItemsOf("A") : IsEvidence(ItemAt(p)) => ItemAt(p).store = ""
  /\ \E k \in DOMAIN lists[resp.id].items :
       ~lists[resp.id].items[k].purchased /\ lists[resp.id].items[k].plannedPrice = 640

\* ---- units without conversion
OtherUnits == {"slice", "cup", "un", "pinch"}

\* user u holds a purchase of the item in exactly that unit
BoughtInUnit(u, name, unit) ==
  \E p \in ItemsOf(u) :
    /\ IsEvidence(ItemAt(p))
    /\ NormName(ItemAt(p).name) = NormName(name)
    /\ mapUnit(ItemAt(p).unit) = mapUnit(unit)

\* C19: purchases of one item in two different units without conversion are
\* never combined: no history group holds records in two such units, a
\* backfill prices an item in such a unit only from purchases in that unit,
\* and a synthesis without allowUnknown rejects an ingredient in such a unit
\* that was never bought in it.
C19_OtherUnitsApart ==
  /\ \A key \in DOMAIN FullHistory("A") :
       \A r1, r2 \in Range(FullHistory("A")[key].records) :
         (r1.unit \in OtherUnits /\ r2.unit \in OtherUnits) => r1.unit = r2.unit
  /\ (resp.op = "estimate" /\ resp.code = 200) =>
       \A k \in DOMAIN lists[1].items :
         LET it == lists[1].items[k]
         IN  (~it.purchased /\ it.unit \in OtherUnits /\ ~BoughtInUnit("A", it.name, it.unit)) =>
                it.plannedPrice = 0
  /\ (resp.op = "mealplan" /\ ~resp.req.allowUnknown) =>
       \A i \in DOMAIN resp.req.plan :
         (mapUnit(resp.req.plan[i].unit) \in OtherUnits
            /\ ~BoughtInUnit("A", resp.req.plan[i].name, resp.req.plan[i].unit)) =>
              resp.code = 400

\* rice was bought by the slice (3.00 each) and by the cup (1.00 each), and a
\* median backfill priced 3 slices at 6.00
C19_Witness ==
  /\ resp.op = "estimate" /\ resp.code = 200 /\ resp.req.strategy = "median"
  /\ Len(lists[1].items) = 3
  /\ lists[1].items[1].purchased /\ lists[1].items[1].unit = "slice"
  /\ lists[1].items[2].purchased /\ lists[1].items[2].unit = "cup"
  /\ lists[1].items[3].unit = "slice" /\ lists[1].items[3].qty = 3
  /\ lists[1].items[3].plannedPrice = 600

\* a synthesis priced 3 slices of rice although rice was only bought by the cup
C19_SynthesisWitness ==
  /\ resp.op = "mealplan" /\ resp.code = 201 /\ ~resp.req.allowUnknown
  /\ resp.req.plan[1].unit = "slice" /\ resp.req.plan[1].qty = 3
  /\ Len(lists[1].items) = 1 /\ lists[1].items[1].unit = "cup"
  /\ lists[2].items[1].plannedPrice = 300

\* ---- estimates in kg and g, in l and ml
UnitPairs == { <<"kg", "g">>, <<"l", "ml">> }

\* the estimate of the registered copy for q of `unit`: the unit is no argument
routes_Estimate(records, q, unit, strategy) == routes_suggestPrice(records, q, strategy)

RoutesHistory(u) == routes_aggregateUserHistory(lists, u, "", NoDays, now)

\* C20: for every set of records, every strategy and every quantity q > 0 the
\* estimate for q kg is the estimate for 1000 q g, and the estimate for q l is
\* the estimate for 1000 q ml.
C20_UnitCorrect ==
  \A key \in DOMAIN FullHistory("A"), st \in Strategies, q \in 1..MaxQty, pr \in UnitPairs :
    LET rs == FullHistory("A")[key].records
    IN  suggestPrice(rs, q, pr[1], st) = suggestPrice(rs, 1000 * q, pr[2], st)

\* C20, of the registered copy
C20_RoutesUnitCorrect ==
  \A key \in DOMAIN RoutesHistory("A"), st \in Strategies, q \in 1..MaxQty, pr \in UnitPairs :
    LET rs == RoutesHistory("A")[key].records
    IN  rs # << >> =>
          routes_Estimate(rs, q, pr[1], st) = routes_Estimate(rs, 1000 * q, pr[2], st)

\* 2 kg were bought for 30.00 and a backfill priced 3 kg at 45.00, as it
\* would have priced 3000 g
C20_Witness ==
  /\ resp.op = "estimate" /\ resp.code = 200
  /\ Len(lists[1].items) = 2
  /\ lists[1].items[1].purchased /\ lists[1].items[1].unit = "kg"
  /\ lists[1].items[2].unit = "kg" /\ lists[1].items[2].qty = 3
  /\ lists[1].items[2].plannedPrice = 4500
  /\ suggestPrice(FullHistory("A")[<<"rice", "weight">>].records, 3000, "g", "last") = 4500

\* the registered copy priced 2 kg of rice at 6.00 from 1 kg bought for 3.00;
\* for 2000 g it answers 6000.00 from the same records
C20_RoutesWitness ==
  /\ resp.op = "estimate" /\ resp.code = 200 /\ resp.req.user = "A"
  /\ \E k \in DOMAIN lists[resp.id].items :
       LET it == lists[resp.id].items[k]
       IN  /\ ~it.purchased /\ it.unit = "kg" /\ it.qty = 2 /\ it.plannedPrice = 600
           /\ <<"rice", "kg">> \in DOMAIN RoutesHistory("A")
           /\ routes_Estimate(RoutesHistory("A")[<<"rice", "kg">>].records, 2000, "g", "last")
                = 600000

\* ---- the backfill, await by await
\* the step is the save of request p
IsSaveOf(p) ==
  /\ p \in DOMAIN procs /\ procs[p].pc # "done"
  /\ procs'[p].pc = "done"

\* C21: a backfill writes once, after the loop over all items, and to its own
\* list only: the lists change in no other step of the request, the one write
\* carries every price the loop computed, a request that has not saved has
\* written nothing, and a failure before the write leaves the lists as they were.
C21_WritesOnce ==
  [][/\ \A p \in DOMAIN procs' :
          procs'[p].op = "estimate" =>
            /\ procs'[p].writes = (IF procs'[p].pc = "done" THEN 1 ELSE 0)
            /\ (p \in DOMAIN procs /\ procs[p] # procs'[p] /\ ~IsSaveOf(p)) => lists' = lists
            /\ IsSaveOf(p) =>
                 LET pr == procs[p]
                 IN  /\ pr.pc = "computed"
                     /\ \A i \in DOMAIN lists : i # pr.id => lists'[i] = lists[i]
                     /\ Len(lists'[pr.id].items) = Len(lists[pr.id].items)
                     /\ \A k \in DOMAIN pr.doc.items :
                          pr.doc.items[k].plannedPrice # pr.loaded.items[k].plannedPrice =>
                            lists'[pr.id].items[k].plannedPrice = pr.doc.items[k].plannedPrice
     /\ lists' # lists => \E p \in DOMAIN procs : IsSaveOf(p)]_vars

\* a backfill of every item, alone, has saved once: the kilogram bought and
\* the two kilograms wanted both carry their estimate, 3.00 and 6.00
C21_Witness ==
  /\ Len(procs) = 1 /\ procs[1].op = "estimate" /\ procs[1].pc = "done" /\ procs[1].writes = 1
  /\ procs[1].id = 1 /\ ~procs[1].onlyMissing
  /\ lists[1].items[1].plannedPrice = 300 /\ lists[1].items[2].plannedPrice = 600
  /\ procs[1].loaded.items[2].plannedPrice = 700
  /\ resp.op = "estimate" /\ resp.code = 200

\* a backfill failed after its loop: nothing was written
C21_FailedWitness ==
  /\ Len(procs) = 1 /\ procs[1].op = "estimate" /\ procs[1].pc = "failed" /\ procs[1].writes = 0
  /\ procs[1].doc # procs[1].loaded /\ lists[1] = procs[1].loaded
  /\ resp.code = 500

\* ---- the backfill against a patch of the same list
\* the step is the save of a backfill with onlyMissing
IsMissingSave(p) == IsSaveOf(p) /\ procs[p].op = "estimate" /\ procs[p].onlyMissing

\* C27: when a patch that sets an item's plannedPrice above 0 is persisted
\* before the write of a backfill with onlyMissing=true, the item keeps the
\* patched price after that write, and the write reverts no name, qty,
\* purchased flag or purchasedPrice.
C27_PatchSurvives ==
  [][\A p \in DOMAIN procs :
       IsMissingSave(p) =>
         \A k \in DOMAIN lists[procs[p].id].items :
           LET before == lists[procs[p].id].items[k]
               after  == lists'[procs[p].id].items[k]
           IN  /\ before.plannedPrice > 0 => after.plannedPrice = before.plannedPrice
               /\ after.name = before.name /\ after.qty = before.qty
               /\ after.purchased = before.purchased
               /\ after.purchasedPrice = before.purchasedPrice]_vars

\* the write of a backfill reverts no name, qty, purchased flag or purchasedPrice
C27_NoFieldReverted ==
  [][\A p \in DOMAIN procs :
       IsMissingSave(p) =>
         \A k \in DOMAIN lists[procs[p].id].items :
           LET before == lists[procs[p].id].items[k]
               after  == lists'[procs[p].id].items[k]
           IN  /\ after.name = before.name /\ after.qty = before.qty
               /\ after.purchased = before.purchased
               /\ after.purchasedPrice = before.purchasedPrice]_vars

\* the backfill loaded the list, the patch set 5.00 on the second item and was
\* saved, then the backfill saved: the item carries the estimate 6.00
C27_Witness ==
  /\ Len(procs) = 2
  /\ procs[1].op = "estimate" /\ procs[1].onlyMissing /\ procs[1].pc = "done"
  /\ procs[1].id = 1
  /\ procs[2].op = "patchItem" /\ procs[2].pc = "done" /\ procs[2].id = 1 /\ procs[2].item = 2
  /\ procs[2].patch = [plannedPrice |-> 500]
  /\ procs[1].loaded.items[2].plannedPrice = 0
  /\ lists[1].items[2].plannedPrice = 600
  /\ resp.op = "estimate" /\ resp.code = 200

\* ---- recency: the order of the records and the `last` strategy
\* what a purchase is made of: the fields the aggregator reads, the date aside
Evidence(ls) ==
  [i \in DOMAIN ls |->
     [user |-> ls[i].user,
      items |-> [k \in DOMAIN ls[i].items |->
                   [f \in {"name", "qty", "unit", "purchased", "purchasedPrice", "store"} |->
                      ls[i].items[k][f]]]]]

\* the per-base-unit price `last` takes from each group of u's history
LastUnitPrices(ls, u) ==
  LET h == aggregateUserHistory(ls, u, "", NoDays, 0)
  IN  [key \in DOMAIN h |-> h[key].records[1].unitPriceBase]

SameFrac(f, h) == f[1] * h[2] = h[1] * f[2]

\* C22, as stated: a later purchase of the same item always supersedes the
\* earlier ones under `last`: while no purchase is made, changed or removed,
\* the price `last` takes for each item stays that of the latest purchase.
C22_LaterPurchaseSupersedes ==
  [][Evidence(lists') = Evidence(lists) =>
       \A key \in DOMAIN LastUnitPrices(lists, "A") :
         SameFrac(LastUnitPrices(lists', "A")[key], LastUnitPrices(lists, "A")[key])]_vars

\* C22, the part about order: the records of every group run from the newest
\* effective date to the oldest, and `last` prices a request with the
\* per-base-unit price of the first valid record.
C22_RecencyOrder ==
  \A f \in Filters :
    LET h == aggregateUserHistory(lists, "A", f.store, f.days, now)
    IN  \A key \in DOMAIN h :
          LET rs == h[key].records
          IN  /\ \A i, j \in 1..Len(rs) : i < j => rs[i].date >= rs[j].date
              /\ \A q \in 0..MaxQty, unit \in EstimateUnits :
                   suggestPrice(rs, q, unit, "last")
                     = ToFixed2(rs[1].unitPriceBase, QtyBaseWanted(q, unit))

\* the older purchase was patched (its plannedPrice only) after the newer one
\* was made, and is now the first record of its group
C22_Witness ==
  /\ resp.op = "patchItem" /\ resp.code = 200 /\ Len(lists[1].items) = 3
  /\ lists[1].items[1].purchased /\ lists[1].items[2].purchased
  /\ lists[1].items[1].plannedPrice = 500 /\ lists[1].items[2].plannedPrice = 250
  /\ lists[1].items[1].updatedAt > lists[1].items[2].updatedAt
  /\ keyOf("rice", "kg") \in DOMAIN FullHistory("A")
  /\ LET rs == FullHistory("A")[keyOf("rice", "kg")].records
     IN  Len(rs) = 2 /\ rs[1].unit = "kg" /\ rs[1].price = lists[1].items[1].purchasedPrice

\* ---- groups and records
\* the purchases of u that no rule skips, under a filter
Counted(u, store, days) ==
  {p \in ItemsOf(u) :
     LET l == lists[p[1]]
         it == l.items[p[2]]
     IN  PassesFilters(it, l, store, days, now) /\ toBaseQty(it.qty, it.unit) > 0}

\* C23: for every user and every filter each group of the aggregator's result
\* holds at least one record, and a key is in the result exactly when a
\* purchase under it is skipped by no rule.
C23_NoEmptyGroups ==
  \A u \in Users, f \in Filters :
    LET h == aggregateUserHistory(lists, u, f.store, f.days, now)
        counted == Counted(u, f.store, f.days)
    IN  /\ \A key \in DOMAIN h : Len(h[key].records) >= 1
        /\ DOMAIN h = {keyOf(lists[p[1]].items[p[2]].name, lists[p[1]].items[p[2]].unit) :
                         p \in counted}
        /\ \A key \in DOMAIN h :
             Len(h[key].records)
               = Cardinality({p \in counted :
                    keyOf(lists[p[1]].items[p[2]].name, lists[p[1]].items[p[2]].unit) = key})

\* A's only purchases under a key are skipped (no quantity, or another store
\* than the one asked for) and a backfill has run: the key is in no result
C23_Witness ==
  /\ resp.op = "estimate" /\ resp.code = 200 /\ resp.req.user = "A"
  /\ \E p \in ItemsOf("A") :
       LET it == lists[p[1]].items[p[2]]
       IN  /\ it.purchased /\ it.purchasedPrice > 0
           /\ (it.qty = 0 \/ (it.store = "aldi" /\ resp.req.store = "LIDL"))
           /\ keyOf(it.name, it.unit)
                \notin DOMAIN aggregateUserHistory(lists, "A", resp.req.store,
                                                   resp.req.days, now)

\* ---- units on write
\* C24, as stated: the unit of every item in the store is a fixed point of the
\* normalizer: mapUnit(unit) = unit.
C24_UnitsNormalized ==
  \A i \in DOMAIN lists : \A k \in DOMAIN lists[i].items :
    mapUnit(lists[i].items[k].unit) = lists[i].items[k].unit

\* an item patched with the empty unit is stored with the empty unit
C24_Witness ==
  /\ resp.op = "patchItem" /\ resp.code = 200
  /\ \E k \in DOMAIN lists[resp.id].items :
       /\ lists[resp.id].items[k].unit = ""
       /\ lists[resp.id].items[k].updatedAt = now - 1

\* the part that holds: what add and synthesis store is normalized
C24_AddedUnitsNormalized ==
  [][resp'.op \in {"addItem", "mealplan"} =>
       \A i \in DOMAIN lists' : \A k \in DOMAIN lists'[i].items :
         (i \notin DOMAIN lists \/ k \notin DOMAIN lists[i].items) =>
           mapUnit(lists'[i].items[k].unit) = lists'[i].items[k].unit]_vars

\* ---- alerts and thresholds
\* C25, as stated: a summary of a list that is still in the status for which
\* an alert was dispatched dispatches no alert again.
C25_OncePerCrossing ==
  [][(resp'.op = "summary" /\ resp'.code = 200 /\ left' = left - 1
        /\ \E i \in DOMAIN pushes :
             pushes[i].list = resp'.id /\ pushes[i].status = resp'.body.status)
       => pushes' = pushes]_vars

\* the part that holds: a summary dispatches an alert only for a list with a
\* budget above 0, in status warn or over, with notify on, and one at most
C25_OnlyWarnOrOver ==
  [][pushes' = pushes
       \/ (\E i \in DOMAIN pushes : pushes' = [pushes EXCEPT ![i].outcome = pushes'[i].outcome])
       \/ /\ resp'.op = "summary" /\ resp'.code = 200
          /\ Len(pushes') = Len(pushes) + 1
          /\ SubSeq(pushes', 1, Len(pushes)) = pushes
          /\ resp'.body.status \in {"warn", "over"}
          /\ pushes'[Len(pushes')].status = resp'.body.status
          /\ lists[resp'.id].budget > 0 /\ lists[resp'.id].alerts.notify]_vars

\* two summaries of the same unchanged list: two alerts for the same status
C25_Witness ==
  /\ left = 0 /\ resp.op = "summary" /\ resp.code = 200
  /\ Len(pushes) = 2
  /\ pushes[1].list = pushes[2].list /\ pushes[1].status = pushes[2].status
  /\ pushes[2].status = resp.body.status

\* ---- a quantity of 0
\* the price of one unit of an item from the records of its group
OneUnitPrice(hist, name, unit, strategy) ==
  IF HasHistory(hist, keyOf(name, unit))
    THEN suggestPrice(hist[keyOf(name, unit)].records, 1, unit, strategy)
    ELSE 0

\* C26: backfill and synthesis price a quantity of 0 by one rule, the price of
\* one unit: an ingredient with qty 0 gets the plannedPrice a backfill gives
\* the same item, an item with qty 0 gets the plannedPrice a synthesis gives
\* the same ingredient, and neither request fails.
C26_ZeroQtyOneRule ==
  [][/\ (resp'.op = "mealplan" /\ left' = left - 1
           /\ \E i \in DOMAIN resp'.req.plan : resp'.req.plan[i].qty = 0) =>
          /\ resp'.code \in {201, 400}
          /\ resp'.code = 201 =>
               LET hist == aggregateUserHistory(lists, resp'.req.user, resp'.req.store,
                                                resp'.req.days, now)
               IN  \A k \in DOMAIN lists'[resp'.id].items :
                     LET it == lists'[resp'.id].items[k]
                         asBackfilled == EstimatedItem([it EXCEPT !.plannedPrice = 0], hist,
                                                       resp'.req.strategy, FALSE)
                     IN  it.qty = 0 =>
                           /\ it.plannedPrice = asBackfilled.plannedPrice
                           /\ it.plannedPrice
                                = OneUnitPrice(hist, it.name, it.unit, resp'.req.strategy)
     /\ (resp'.op = "estimate" /\ left' = left - 1 /\ resp'.code = 200) =>
          LET hist == aggregateUserHistory(lists, resp'.req.user, resp'.req.store,
                                           resp'.req.days, now)
          IN  \A k \in DOMAIN lists[resp'.id].items :
                LET it == lists[resp'.id].items[k]
                    asPlanned == PlannedItem([name |-> it.name, qty |-> 0, unit |-> it.unit],
                                             hist, resp'.req.strategy, resp'.req.store, now)
                IN  (it.qty = 0 /\ ~(resp'.req.onlyMissing /\ it.plannedPrice > 0)
                       /\ HasHistory(hist, keyOf(it.name, it.unit))) =>
                      /\ lists'[resp'.id].items[k].plannedPrice = asPlanned.plannedPrice
                      /\ asPlanned.plannedPrice
                           = OneUnitPrice(hist, it.name, it.unit, resp'.req.strategy)]_vars

\* a synthesis has priced an ingredient with qty 0 at the price of one unit
C26_Witness ==
  /\ resp.op = "mealplan" /\ resp.code = 201
  /\ \E k \in DOMAIN lists[resp.id].items :
       lists[resp.id].items[k].qty = 0 /\ lists[resp.id].items[k].plannedPrice > 0

\* a backfill has priced an item with qty 0 at the price of one unit
C26_BackfillWitness ==
  /\ resp.op = "estimate" /\ resp.code = 200
  /\ \E k \in DOMAIN lists[resp.id].items :
       lists[resp.id].items[k].qty = 0 /\ lists[resp.id].items[k].plannedPrice > 0

\* ---- the price log
\* C28: no item of the store has an entry in its priceHistory, and the search
\* of the price log finds nothing, for every caller, name and store.
C28_PriceLogEmpty ==
  /\ \A i \in DOMAIN lists : \A k \in DOMAIN lists[i].items :
       lists[i].items[k].priceHistory = << >>
  /\ \A u \in Users, q \in PriceQueries, s \in {"", "LIDL", "lidl"} :
       PricesFound(lists, u, q, s) = << >>
  /\ resp.op = "search" => resp.code = 200 /\ resp.body.count = 0 /\ resp.body.history = << >>

\* rice was purchased at lidl with a price, and the search for it by that name
\* and store is answered with no entry
C28_Witness ==
  /\ resp.op = "search" /\ resp.code = 200 /\ resp.body.count = 0
  /\ resp.req.store = "LIDL" /\ Len(lists) >= 1
  /\ \E k \in DOMAIN lists[1].items :
       /\ lists[1].items[k].purchased /\ lists[1].items[k].purchasedPrice = 300
       /\ lists[1].items[k].store = "lidl"
       /\ RegExpTest(resp.req.name, lists[1].items[k].name)

\* ---- synthesis and the purchase history
\* C29: a synthesis, answered 201, 400 or 500, leaves the aggregator's result
\* of every user under every filter as it was, and every item of a list it
\* creates has purchased = false and purchasedPrice = 0.
C29_NoEvidenceAdded ==
  [][(resp'.op = "mealplan" /\ left' = left - 1) =>
       /\ \A u \in Users, f \in Filters :
            aggregateUserHistory(lists', u, f.store, f.days, now)
              = aggregateUserHistory(lists, u, f.store, f.days, now)
       /\ resp'.code = 201 =>
            /\ Len(lists') = Len(lists) + 1
            /\ \A k \in DOMAIN lists'[resp'.id].items :
                 /\ ~lists'[resp'.id].items[k].purchased
                 /\ lists'[resp'.id].items[k].purchasedPrice = 0
       /\ resp'.code # 201 => lists' = lists]_vars

\* a list was created from a plan with an ingredient A has bought before,
\* priced from that history
C29_Witness ==
  /\ resp.op = "mealplan" /\ resp.code = 201 /\ resp.req.user = "A"
  /\ \E k \in DOMAIN lists[resp.id].items :
       /\ lists[resp.id].items[k].plannedPrice > 0
       /\ keyOf(lists[resp.id].items[k].name, lists[resp.id].items[k].unit)
            \in DOMAIN FullHistory("A")

\* a synthesis that failed on an ingredient without a name
C29_FailedWitness == resp.op = "mealplan" /\ resp.code = 500 /\ FullHistory("A") # << >>

\* ---- what a backfill touches
\* the item a backfill may price: not skipped by onlyMissing, with history
Eligible(it, req, t) ==
  /\ ~(req.onlyMissing /\ it.plannedPrice > 0)
  /\ HasHistory(aggregateUserHistory(lists, req.user, req.store, req.days, t),
                keyOf(it.name, it.unit))

\* C30, as stated: a backfill changes nothing except the plannedPrice of
\* eligible items and the category of eligible items that had none.
C30_BackfillFrame ==
  [][(resp'.op = "estimate" /\ left' = left - 1) =>
       /\ Len(lists') = Len(lists)
       /\ \A i \in DOMAIN lists :
            /\ \A f \in DOMAIN lists[i] \ {"items"} : lists'[i][f] = lists[i][f]
            /\ Len(lists'[i].items) = Len(lists[i].items)
            /\ \A k \in DOMAIN lists[i].items :
                 \A f \in DOMAIN lists[i].items[k] :
                   lists'[i].items[k][f] # lists[i].items[k][f] =>
                     /\ i = resp'.id /\ resp'.code = 200
                     /\ Eligible(lists[i].items[k], resp'.req, now)
                     /\ f \in {"plannedPrice", "category"}
                     /\ f = "category" => lists[i].items[k].category = ""]_vars

\* C30, the update times aside: a backfill creates no list, adds, removes or
\* moves no item, changes only the plannedPrice of eligible items and the
\* category of eligible items that had none, and stamps the update time of
\* the list it saves and of the items it changed, of nothing else.
C30_BackfillFrameButTimes ==
  [][(resp'.op = "estimate" /\ left' = left - 1) =>
       /\ Len(lists') = Len(lists)
       /\ \A i \in DOMAIN lists :
            /\ \A f \in DOMAIN lists[i] \ {"items", "updatedAt"} : lists'[i][f] = lists[i][f]
            /\ lists'[i].updatedAt # lists[i].updatedAt =>
                 i = resp'.id /\ resp'.code = 200 /\ lists'[i].updatedAt = now
            /\ Len(lists'[i].items) = Len(lists[i].items)
            /\ \A k \in DOMAIN lists[i].items :
                 LET before == lists[i].items[k]
                     after  == lists'[i].items[k]
                 IN  /\ \A f \in DOMAIN before \ {"updatedAt"} :
                          after[f] # before[f] =>
                            /\ i = resp'.id /\ resp'.code = 200
                            /\ Eligible(before, resp'.req, now)
                            /\ f \in {"plannedPrice", "category"}
                            /\ f = "category" => before.category = ""
                     /\ after.updatedAt # before.updatedAt =>
                          /\ after.updatedAt = now
                          /\ after.plannedPrice # before.plannedPrice
                               \/ after.category # before.category]_vars

\* a backfill has priced an item and given it the category of its group,
\* next to an item with a category of its own
C30_Witness ==
  /\ resp.op = "estimate" /\ resp.code = 200
  /\ \E k, m \in DOMAIN lists[resp.id].items :
       /\ lists[resp.id].items[k].updatedAt = now - 1
       /\ lists[resp.id].items[k].plannedPrice > 0
       /\ lists[resp.id].items[k].category = "graos"
       /\ ~lists[resp.id].items[k].purchased
       /\ lists[resp.id].items[m].updatedAt < now - 1
       /\ lists[resp.id].items[m].purchased

====
